---- MODULE Spec2Model ----
(***************************************************************************)
(* The upgrade workflow of anvil (src/anvil/agent): the LangGraph state    *)
(* graph built by build_upgrade_graph, its node handlers and its routing   *)
(* functions.  One action per node handler; the action applies the dict    *)
(* the handler returns to the workflow state (each returned key overwrites *)
(* the state's key) and then takes the edge of the graph, the routing      *)
(* function of a conditional edge being evaluated on the updated state.    *)
(***************************************************************************)
EXTENDS Integers, Sequences, FiniteSets, TLC

VARIABLES
    node,               \* the graph node that runs next ("END": the run is over)
    phase,              \* state["phase"]
    dependencies,       \* state["dependencies"]
    dashboard_data,     \* state["dashboard_data"]
    selected_packages,  \* state["selected_packages"]
    current_index,      \* state["current_index"] (0-based, as in the code)
    packages,           \* state["packages"]
    completed,          \* state["completed"]
    failed,             \* state["failed"]
    skipped,            \* state["skipped"]
    errors,             \* state["errors"]
    calls,              \* the orchestrator, PackageManager.install and run_tests calls made so far
    gh_pc,              \* GitHubRetriever.get_changelog: the strategy it is about to try
    gh_world,           \* what the repository and the version strings hold for this lookup
    gh_tried,           \* the strategies get_changelog has called so far
    gh_result,          \* what get_changelog returned
    rr_pc,              \* _fetch_all_releases_in_range: "loop" over the listing, then "returned"
    rr_in,              \* its arguments and the releases listing the request answered
    rr_i,               \* the number of listed releases the loop has been through
    rr_parsed,          \* per release gone through: the version its tag parsed to (0: skipped)
    rr_notes,           \* relevant_notes: the tags of the releases included so far
    py_pc,              \* PyPIRetriever.get_source_url: "fetch", "candidates", "home_page", "returned"
    py_in,              \* what the registry answers for the package
    py_i,               \* the number of candidate keys the loop has been through
    py_result,          \* what get_source_url returned
    or_pc,              \* AgentOrchestrator.analyze: "running" the agents, then "aggregated"
    or_mode,            \* "sequential", "parallel" (thread pool) or "async" (analyze_async)
    or_world,           \* per agent: its wrapper, its llm, the budget setting, its backend
    or_returned,        \* per agent: what its call has left for the orchestrator so far
    or_call,            \* per agent: what its analyze call did (its value, backend reached)
    or_order,           \* the names of the agents in the order their calls completed
    or_assessment,      \* the MultiAgentAssessment being built or returned
    pv_pc,              \* _detect_project_python_version: the source it looks at next
    pv_in,              \* the project's files and what its interpreter answers
    pv_result           \* what _detect_project_python_version returned

\* the workflow state
wf == <<node, phase, dependencies, dashboard_data, selected_packages,
        current_index, packages, completed, failed, skipped, errors, calls>>

\* one call of GitHubRetriever.get_changelog
gh == <<gh_pc, gh_world, gh_tried, gh_result>>

\* one call of GitHubRetriever._fetch_all_releases_in_range
rr == <<rr_pc, rr_in, rr_i, rr_parsed, rr_notes>>

\* one call of PyPIRetriever.get_source_url
py == <<py_pc, py_in, py_i, py_result>>

\* everything outside the workflow state
\* the analysis orchestrator
orch == <<or_pc, or_mode, or_world, or_returned, or_call, or_order, or_assessment>>

\* the detection of the project's Python version
pv == <<pv_pc, pv_in, pv_result>>

aside == <<gh, rr, py, orch, pv>>

vars == <<wf, aside>>

(***************************************************************************)
(* Bounds and value sets.                                                  *)
(***************************************************************************)
MaxDeps == 3

Names == 1 .. MaxDeps

None == "None"

\* the environment the scan looks at: what EnvironmentChecker.get_installed_version
\* and PyPIRetriever.get_latest_version answer for each declared name
InstalledVersion(name) == IF name % 4 = 0 THEN None ELSE "1.0"

LatestVersion(name) ==
    IF name % 3 = 0 THEN None ELSE IF name % 3 = 1 THEN "2.0" ELSE "1.0"

\* the overall_risk of the aggregated assessment, as far as analyze_node looks at
\* it: "high" (or blocking issues) against any other level
RiskLevels == {"low", "high"}

PerPackageNodes == {"analyze", "confirm", "install", "test", "commit", "rollback"}

Phases == {"scan", "select", "analyze", "confirm", "install", "test",
           "commit", "rollback", "next", "done"}

(***************************************************************************)
(* Helpers on sequences.                                                   *)
(***************************************************************************)
Range(s) == {s[i] : i \in DOMAIN s}

\* the elements of a set of names in ascending order
RECURSIVE SortedSeq(_)
SortedSeq(S) ==
    IF S = {} THEN <<>>
    ELSE LET m == CHOOSE x \in S : \A y \in S : x <= y
         IN  <<m>> \o SortedSeq(S \ {m})

Reverse(s) == [i \in DOMAIN s |-> s[Len(s) + 1 - i]]

\* what list(set) can yield for the rows toggled: every subset of S, in an
\* order the set decides; the dashboard's order and its reverse stand for the
\* orders that agree and that disagree with the dashboard
Orderings(S) ==
    UNION {{SortedSeq(T), Reverse(SortedSeq(T))} : T \in SUBSET S}

(***************************************************************************)
(* scan_node                                                               *)
(***************************************************************************)
Status(installed, latest) ==
    IF installed = None THEN "MISSING"
    ELSE IF latest /= None
         THEN (IF latest = installed THEN "UP_TO_DATE" ELSE "OUTDATED")
         ELSE "?"

DashboardRow(name, installed, latest) ==
    [name      |-> name,
     installed |-> IF installed = None THEN "missing" ELSE installed,
     latest    |-> IF latest = None THEN "N/A" ELSE latest,
     status    |-> Status(installed, latest)]

\* variant: a dependency whose latest version is unknown gets no dashboard row
scan_node_skipping ==
    /\ node = "scan"
    /\ \E S \in SUBSET Names :
          LET deps  == SortedSeq(S)
              known == SortedSeq({n \in S : LatestVersion(n) /= None})
          IN  /\ dependencies' = deps
              /\ dashboard_data' =
                    [i \in DOMAIN known |->
                        DashboardRow(known[i], InstalledVersion(known[i]), LatestVersion(known[i]))]
    /\ phase' = "select"
    /\ node' = "select"
    /\ UNCHANGED <<selected_packages, current_index, packages, completed,
                   failed, skipped, errors, calls>>
    /\ UNCHANGED aside

scan_node ==
    /\ node = "scan"
    /\ \E S \in SUBSET Names :
          LET deps == SortedSeq(S)
          IN  /\ dependencies' = deps
              /\ dashboard_data' =
                    [i \in DOMAIN deps |->
                        DashboardRow(deps[i], InstalledVersion(deps[i]), LatestVersion(deps[i]))]
    /\ phase' = "select"
    /\ node' = "select"
    /\ UNCHANGED <<selected_packages, current_index, packages, completed,
                   failed, skipped, errors, calls>>
    /\ UNCHANGED aside

(***************************************************************************)
(* select_node and route_after_select                                      *)
(***************************************************************************)
\* variant: the workflow goes on to analyze whatever was selected
route_after_select_always(selected) == "analyze"

route_after_select(selected) ==
    IF selected /= <<>> THEN "analyze" ELSE "done"

\* next((d for d in dashboard_data if d["name"] == pkg_name), None): 0 stands for None
FindEntry(dash, pkg_name) ==
    IF \E i \in DOMAIN dash : dash[i].name = pkg_name
    THEN CHOOSE i \in DOMAIN dash :
            /\ dash[i].name = pkg_name
            /\ \A j \in DOMAIN dash : dash[j].name = pkg_name => i <= j
    ELSE 0

\* variant: the two versions of the row are exchanged
NewPackageState_swapped(pkg_name, entry) ==
    [name                   |-> pkg_name,
     current_version        |-> entry.latest,
     target_version         |-> entry.installed,
     changelog              |-> None,
     assessment             |-> None,
     multi_agent_assessment |-> None,
     approved               |-> FALSE,
     installed              |-> FALSE,
     tests_passed           |-> None,
     committed              |-> FALSE,
     error                  |-> None]

NewPackageState(pkg_name, entry) ==
    [name                   |-> pkg_name,
     current_version        |-> entry.installed,
     target_version         |-> entry.latest,
     changelog              |-> None,
     assessment             |-> None,
     multi_agent_assessment |-> None,
     approved               |-> FALSE,
     installed              |-> FALSE,
     tests_passed           |-> None,
     committed              |-> FALSE,
     error                  |-> None]

RECURSIVE InitPackages(_, _)
InitPackages(selected, dash) ==
    IF selected = <<>> THEN <<>>
    ELSE LET e == FindEntry(dash, Head(selected))
         IN  (IF e /= 0 THEN <<NewPackageState(Head(selected), dash[e])>> ELSE <<>>)
             \o InitPackages(Tail(selected), dash)

\* variant: the failure to load the UI is recorded but every dashboard row is
\* then taken as selected
select_node_no_ui_select_all ==
    /\ node = "select"
    /\ errors' = Append(errors, "Textual library not installed")
    /\ selected_packages' = [i \in DOMAIN dashboard_data |-> dashboard_data[i].name]
    /\ packages' = InitPackages(selected_packages', dashboard_data)
    /\ phase' = IF selected_packages' = <<>> THEN "done" ELSE "analyze"
    /\ node' = route_after_select(selected_packages')
    /\ UNCHANGED <<dependencies, dashboard_data, current_index,
                   completed, failed, skipped, calls>>
    /\ UNCHANGED aside

\* the ImportError branch: the selection UI cannot be loaded
select_node_no_ui ==
    /\ node = "select"
    /\ errors' = Append(errors, "Textual library not installed")
    /\ phase' = "done"
    /\ node' = route_after_select(selected_packages)
    /\ UNCHANGED <<dependencies, dashboard_data, selected_packages, current_index,
                   packages, completed, failed, skipped, calls>>
    /\ UNCHANGED aside

\* the UI ran: it returns the rows the user toggled, in any order, or nothing
select_node ==
    /\ node = "select"
    /\ \E selected \in Orderings({dashboard_data[i].name : i \in DOMAIN dashboard_data}) :
          IF selected = <<>>
          THEN /\ phase' = "done"
               /\ selected_packages' = <<>>
               /\ UNCHANGED <<packages, current_index>>
          ELSE /\ selected_packages' = selected
               /\ packages' = InitPackages(selected, dashboard_data)
               /\ current_index' = 0
               /\ phase' = "analyze"
    /\ node' = route_after_select(selected_packages')
    /\ UNCHANGED <<dependencies, dashboard_data, completed, failed, skipped,
                   errors, calls>>
    /\ UNCHANGED aside

(***************************************************************************)
(* The current package and the collaborators' call record.                 *)
(***************************************************************************)
InRange == current_index + 1 \in DOMAIN packages

CurrentPkg == packages[current_index + 1]

WithCurrent_at_front(pkg) == [packages EXCEPT ![1] = pkg]

\* packages = list(state["packages"]); packages[idx] = pkg
WithCurrent(pkg) == [packages EXCEPT ![current_index + 1] = pkg]

\* pm.install(name, version, update_manifest=...) made by the node `by`: the
\* three-argument PackageManager.install the nodes call, which returns whether
\* the command succeeded
InstallCall(by, pkg, version, update_manifest, result) ==
    [op |-> "install", by |-> by, index |-> current_index, name |-> pkg.name,
     version |-> version, update_manifest |-> update_manifest, result |-> result]

\* runner.run_tests()
TestCall(pkg, result) ==
    [op |-> "run_tests", by |-> "test", index |-> current_index, name |-> pkg.name,
     version |-> None, update_manifest |-> FALSE, result |-> result]

route_after_phase(ph) == ph

(***************************************************************************)
(* analyze_node                                                            *)
(***************************************************************************)
\* get_changelog returns text, returns an empty string, returns None, or
\* raises: the handler catches the exception and stores None
ChangelogOutcomes == {"text", "", None, "raise"}

\* not pkg["changelog"]
Falsy(changelog) == changelog = None \/ changelog = ""

\* AgentOrchestrator(parallel=True).analyze(context)
AnalyzeCall(pkg) ==
    [op |-> "analyze", by |-> "analyze", index |-> current_index, name |-> pkg.name,
     version |-> None, update_manifest |-> FALSE, result |-> "ok"]

\* variant: a high-risk or blocked package ends the workflow instead of being
\* put to the user
analyze_node_gating ==
    /\ node = "analyze"
    /\ InRange
    /\ \E outcome \in ChangelogOutcomes :
          LET changelog == IF outcome = "raise" THEN None ELSE outcome
          IN  IF Falsy(changelog)
              THEN /\ packages' = WithCurrent([CurrentPkg EXCEPT
                                      !.changelog = changelog,
                                      !.assessment = None,
                                      !.multi_agent_assessment = None])
                   /\ phase' = "confirm"
                   /\ UNCHANGED calls
              ELSE \E overall_risk \in RiskLevels, blocking_issues \in BOOLEAN :
                      /\ packages' = WithCurrent([CurrentPkg EXCEPT
                                         !.changelog = changelog,
                                         !.multi_agent_assessment = overall_risk,
                                         !.assessment = None])
                      /\ calls' = Append(calls, AnalyzeCall(CurrentPkg))
                      /\ phase' = IF overall_risk = "high" \/ blocking_issues
                                  THEN "done"
                                  ELSE "confirm"
    /\ node' = route_after_phase(phase')
    /\ node' \in {"confirm", "done"}
    /\ UNCHANGED <<dependencies, dashboard_data, selected_packages, current_index,
                   completed, failed, skipped, errors>>
    /\ UNCHANGED aside

analyze_node ==
    /\ node = "analyze"
    /\ InRange
    /\ \E outcome \in ChangelogOutcomes :
          LET changelog == IF outcome = "raise" THEN None ELSE outcome
          IN  IF Falsy(changelog)
              THEN /\ packages' = WithCurrent([CurrentPkg EXCEPT
                                      !.changelog = changelog,
                                      !.assessment = None,
                                      !.multi_agent_assessment = None])
                   /\ phase' = "confirm"
                   /\ UNCHANGED calls
              ELSE \E overall_risk \in RiskLevels, blocking_issues \in BOOLEAN :
                      /\ packages' = WithCurrent([CurrentPkg EXCEPT
                                         !.changelog = changelog,
                                         !.multi_agent_assessment = overall_risk,
                                         !.assessment = None])
                      /\ calls' = Append(calls, AnalyzeCall(CurrentPkg))
                      /\ phase' = IF overall_risk = "high" \/ blocking_issues
                                  THEN "confirm"
                                  ELSE "confirm"
    /\ node' = route_after_phase(phase')
    /\ node' \in {"confirm", "done"}
    /\ UNCHANGED <<dependencies, dashboard_data, selected_packages, current_index,
                   completed, failed, skipped, errors>>
    /\ UNCHANGED aside

(***************************************************************************)
(* confirm_node                                                            *)
(***************************************************************************)
\* variant: a declined package is still sent on to the trial install
confirm_node_lenient ==
    /\ node = "confirm"
    /\ InRange
    /\ \E answer \in BOOLEAN :
          IF answer
          THEN /\ packages' = WithCurrent([CurrentPkg EXCEPT !.approved = TRUE])
               /\ phase' = "install"
               /\ UNCHANGED skipped
          ELSE /\ packages' = WithCurrent([CurrentPkg EXCEPT !.approved = FALSE])
               /\ skipped' = Append(skipped, CurrentPkg.name)
               /\ phase' = "install"
    /\ node' = route_after_phase(phase')
    /\ node' \in {"install", "next"}
    /\ UNCHANGED <<dependencies, dashboard_data, selected_packages, current_index,
                   completed, failed, errors, calls>>
    /\ UNCHANGED aside

confirm_node ==
    /\ node = "confirm"
    /\ InRange
    /\ \E answer \in BOOLEAN :
          IF answer
          THEN /\ packages' = WithCurrent([CurrentPkg EXCEPT !.approved = TRUE])
               /\ phase' = "install"
               /\ UNCHANGED skipped
          ELSE /\ packages' = WithCurrent([CurrentPkg EXCEPT !.approved = FALSE])
               /\ skipped' = Append(skipped, CurrentPkg.name)
               /\ phase' = "next"
    /\ node' = route_after_phase(phase')
    /\ node' \in {"install", "next"}
    /\ UNCHANGED <<dependencies, dashboard_data, selected_packages, current_index,
                   completed, failed, errors, calls>>
    /\ UNCHANGED aside

(***************************************************************************)
(* install_node                                                            *)
(***************************************************************************)
\* variant: the trial install writes the manifest
install_node_persisting ==
    /\ node = "install"
    /\ InRange
    /\ \E success \in BOOLEAN :
          /\ calls' = Append(calls, InstallCall("install", CurrentPkg, CurrentPkg.target_version,
                                                TRUE, IF success THEN "ok" ELSE "failed"))
          /\ IF success
             THEN /\ packages' = WithCurrent([CurrentPkg EXCEPT !.installed = TRUE])
                  /\ phase' = "test"
                  /\ UNCHANGED failed
             ELSE /\ packages' = WithCurrent([CurrentPkg EXCEPT !.error = "Installation failed"])
                  /\ failed' = Append(failed, CurrentPkg.name)
                  /\ phase' = "next"
    /\ node' = route_after_phase(phase')
    /\ node' \in {"test", "next"}
    /\ UNCHANGED <<dependencies, dashboard_data, selected_packages, current_index,
                   completed, skipped, errors>>
    /\ UNCHANGED aside

\* variant: a failed trial install is recorded but the package still goes on to
\* the test step
install_node_testing_anyway ==
    /\ node = "install"
    /\ InRange
    /\ \E success \in BOOLEAN :
          /\ calls' = Append(calls, InstallCall("install", CurrentPkg, CurrentPkg.target_version,
                                                FALSE, IF success THEN "ok" ELSE "failed"))
          /\ IF success
             THEN /\ packages' = WithCurrent([CurrentPkg EXCEPT !.installed = TRUE])
                  /\ phase' = "test"
                  /\ UNCHANGED failed
             ELSE /\ packages' = WithCurrent([CurrentPkg EXCEPT !.error = "Installation failed"])
                  /\ failed' = Append(failed, CurrentPkg.name)
                  /\ phase' = "test"
    /\ node' = route_after_phase(phase')
    /\ node' \in {"test", "next"}
    /\ UNCHANGED <<dependencies, dashboard_data, selected_packages, current_index,
                   completed, skipped, errors>>
    /\ UNCHANGED aside

install_node ==
    /\ node = "install"
    /\ InRange
    /\ \E success \in BOOLEAN :
          /\ calls' = Append(calls, InstallCall("install", CurrentPkg, CurrentPkg.target_version,
                                                FALSE, IF success THEN "ok" ELSE "failed"))
          /\ IF success
             THEN /\ packages' = WithCurrent([CurrentPkg EXCEPT !.installed = TRUE])
                  /\ phase' = "test"
                  /\ UNCHANGED failed
             ELSE /\ packages' = WithCurrent([CurrentPkg EXCEPT !.error = "Installation failed"])
                  /\ failed' = Append(failed, CurrentPkg.name)
                  /\ phase' = "next"
    /\ node' = route_after_phase(phase')
    /\ node' \in {"test", "next"}
    /\ UNCHANGED <<dependencies, dashboard_data, selected_packages, current_index,
                   completed, skipped, errors>>
    /\ UNCHANGED aside

(***************************************************************************)
(* run_tests_node                                                          *)
(***************************************************************************)
\* variant: the outcome is recorded but the two routes are exchanged
run_tests_node_swapped ==
    /\ node = "test"
    /\ InRange
    /\ \E success \in BOOLEAN :
          /\ calls' = Append(calls, TestCall(CurrentPkg, IF success THEN "ok" ELSE "failed"))
          /\ packages' = WithCurrent([CurrentPkg EXCEPT
                             !.tests_passed = IF success THEN "True" ELSE "False"])
          /\ phase' = IF success THEN "rollback" ELSE "commit"
    /\ node' = route_after_phase(phase')
    /\ node' \in {"commit", "rollback"}
    /\ UNCHANGED <<dependencies, dashboard_data, selected_packages, current_index,
                   completed, failed, skipped, errors>>
    /\ UNCHANGED aside

run_tests_node ==
    /\ node = "test"
    /\ InRange
    /\ \E success \in BOOLEAN :
          /\ calls' = Append(calls, TestCall(CurrentPkg, IF success THEN "ok" ELSE "failed"))
          /\ packages' = WithCurrent([CurrentPkg EXCEPT
                             !.tests_passed = IF success THEN "True" ELSE "False"])
          /\ phase' = IF success THEN "commit" ELSE "rollback"
    /\ node' = route_after_phase(phase')
    /\ node' \in {"commit", "rollback"}
    /\ UNCHANGED <<dependencies, dashboard_data, selected_packages, current_index,
                   completed, failed, skipped, errors>>
    /\ UNCHANGED aside

(***************************************************************************)
(* commit_node                                                             *)
(***************************************************************************)
\* variant: a failed manifest write counts the package as failed
commit_node_failing ==
    /\ node = "commit"
    /\ InRange
    /\ \E success \in BOOLEAN :
          /\ calls' = Append(calls, InstallCall("commit", CurrentPkg, CurrentPkg.target_version,
                                                TRUE, IF success THEN "ok" ELSE "failed"))
          /\ IF success
             THEN /\ packages' = WithCurrent([CurrentPkg EXCEPT !.committed = TRUE])
                  /\ completed' = Append(completed, CurrentPkg.name)
                  /\ UNCHANGED failed
             ELSE /\ packages' = WithCurrent([CurrentPkg EXCEPT !.error = "Manifest update failed"])
                  /\ failed' = Append(failed, CurrentPkg.name)
                  /\ UNCHANGED completed
          /\ phase' = "next"
    /\ node' = "next"
    /\ UNCHANGED <<dependencies, dashboard_data, selected_packages, current_index,
                   skipped, errors>>
    /\ UNCHANGED aside

commit_node ==
    /\ node = "commit"
    /\ InRange
    /\ \E success \in BOOLEAN :
          /\ calls' = Append(calls, InstallCall("commit", CurrentPkg, CurrentPkg.target_version,
                                                TRUE, IF success THEN "ok" ELSE "failed"))
          /\ IF success
             THEN packages' = WithCurrent([CurrentPkg EXCEPT !.committed = TRUE])
             ELSE packages' = WithCurrent([CurrentPkg EXCEPT !.error = "Manifest update failed"])
          /\ completed' = Append(completed, CurrentPkg.name)
          /\ phase' = "next"
    /\ node' = "next"
    /\ UNCHANGED <<dependencies, dashboard_data, selected_packages, current_index,
                   failed, skipped, errors>>
    /\ UNCHANGED aside

(***************************************************************************)
(* rollback_node                                                           *)
(***************************************************************************)
\* variant: a failed reinstall is not recorded on the package
rollback_node_silent ==
    /\ node = "rollback"
    /\ InRange
    /\ \E answer \in BOOLEAN :
          IF answer
          THEN \E success \in BOOLEAN :
                  /\ calls' = Append(calls, InstallCall("rollback", CurrentPkg,
                                                        CurrentPkg.current_version, FALSE,
                                                        IF success THEN "ok" ELSE "failed"))
                  /\ packages' = WithCurrent(CurrentPkg)
          ELSE /\ packages' = WithCurrent(CurrentPkg)
               /\ UNCHANGED calls
    /\ failed' = Append(failed, CurrentPkg.name)
    /\ phase' = "next"
    /\ node' = "next"
    /\ UNCHANGED <<dependencies, dashboard_data, selected_packages, current_index,
                   completed, skipped, errors>>
    /\ UNCHANGED aside

rollback_node ==
    /\ node = "rollback"
    /\ InRange
    /\ \E answer \in BOOLEAN :
          IF answer
          THEN \E success \in BOOLEAN :
                  /\ calls' = Append(calls, InstallCall("rollback", CurrentPkg,
                                                        CurrentPkg.current_version, FALSE,
                                                        IF success THEN "ok" ELSE "failed"))
                  /\ IF success
                     THEN packages' = WithCurrent(CurrentPkg)
                     ELSE packages' = WithCurrent([CurrentPkg EXCEPT !.error = "Rollback failed"])
          ELSE /\ packages' = WithCurrent(CurrentPkg)
               /\ UNCHANGED calls
    /\ failed' = Append(failed, CurrentPkg.name)
    /\ phase' = "next"
    /\ node' = "next"
    /\ UNCHANGED <<dependencies, dashboard_data, selected_packages, current_index,
                   completed, skipped, errors>>
    /\ UNCHANGED aside

(***************************************************************************)
(* next_node, next_package_or_done, done_node                              *)
(***************************************************************************)
\* variant: the comparison admits the index one past the end
next_package_or_done_inclusive(idx, pkgs) ==
    IF idx + 1 <= Len(pkgs) + 1 THEN "analyze" ELSE "done"

\* variant: the loop never leaves
next_package_or_done_always(idx, pkgs) == "analyze"

next_package_or_done(idx, pkgs) ==
    IF idx + 1 < Len(pkgs) THEN "analyze" ELSE "done"

next_node ==
    /\ node = "next"
    /\ current_index' = current_index + 1
    /\ phase' = "analyze"
    /\ node' = next_package_or_done(current_index', packages)
    /\ UNCHANGED <<dependencies, dashboard_data, selected_packages, packages,
                   completed, failed, skipped, errors, calls>>
    /\ UNCHANGED aside

done_node ==
    /\ node = "done"
    /\ phase' = "done"
    /\ node' = "END"
    /\ UNCHANGED <<dependencies, dashboard_data, selected_packages, current_index,
                   packages, completed, failed, skipped, errors, calls>>
    /\ UNCHANGED aside

(***************************************************************************)
(* The workflow: build_upgrade_graph, entered at scan, with collaborators  *)
(* that return their result.                                               *)
(***************************************************************************)
InitWorkflow ==
    /\ node = "scan"
    /\ phase = "scan"
    /\ dependencies = <<>>
    /\ dashboard_data = <<>>
    /\ selected_packages = <<>>
    /\ current_index = 0
    /\ packages = <<>>
    /\ completed = <<>>
    /\ failed = <<>>
    /\ skipped = <<>>
    /\ errors = <<>>
    /\ calls = <<>>

(***************************************************************************)
(* The analysis wrappers and their orchestrator                            *)
(* (src/anvil/agent/agents/base.py, orchestrator.py).                      *)
(*                                                                         *)
(* An assessment, a listing entry and an exception are records with a      *)
(* "kind" field; NoResult stands for Python's None.  The texts the         *)
(* aggregator appends to blocking_issues, warnings and improvements are    *)
(* modelled by their fixed prefixes.                                       *)
(***************************************************************************)
NoResult == [kind |-> "None"]

\* the truth value of an Optional[BaseModel]: every assessment object is truthy
Present(result) == result.kind /= "None"

\* AgentOrchestrator.agents, by name
agents == <<"risk_assessor", "security_auditor", "compatibility">>

AgentNames == Range(agents)

Levels == {"high", "medium", "low", "positive"}

\* RiskAssessment objects: risk_level and the severities of breaking_changes
RiskAssessments ==
    [kind : {"risk"}, risk_level : Levels,
     breaking_changes : {<<>>, <<"critical">>, <<"major">>,
                         <<"critical", "major", "critical">>}]

\* SecurityAssessment objects; a vulnerability is "fixes_current" when
\* fixed_in_upgrade and affects_current are both set
SecurityAssessments ==
    [kind : {"security"}, security_score : {"improved", "neutral", "concerning"},
     upgrade_recommended : BOOLEAN,
     vulnerabilities_fixed : {<<>>, <<"fixes_current", "not_current">>},
     security_concerns : {<<>>}]
    \cup
    [kind : {"security"}, security_score : {"improved", "neutral", "concerning"},
     upgrade_recommended : BOOLEAN,
     vulnerabilities_fixed : {<<>>},
     security_concerns : {<<"concern">>}]

\* CompatibilityAssessment objects: the two flags and the severities of issues
CompatibilityAssessments ==
    [kind : {"compatibility"}, compatible : BOOLEAN, python_compatible : BOOLEAN,
     issues : {<<>>, <<"blocking">>, <<"warning">>, <<"blocking", "info", "blocking">>}]

\* what the backend of each wrapper can answer with
Assessments(name) ==
    CASE name = "risk_assessor" -> RiskAssessments
      [] name = "security_auditor" -> SecurityAssessments
      [] name = "compatibility" -> CompatibilityAssessments

\* dict.get on the results dict, an insertion-ordered list of (name, result)
Get_result(results, name) ==
    IF \E i \in 1..Len(results) : results[i].name = name
    THEN results[CHOOSE i \in 1..Len(results) : results[i].name = name].result
    ELSE NoResult

Concat_first_only(ss) == IF ss = <<>> THEN <<>> ELSE Head(ss)

\* the concatenation of a sequence of sequences
RECURSIVE Concat(_)
Concat(ss) == IF ss = <<>> THEN <<>> ELSE Head(ss) \o Concat(Tail(ss))

risk_order == <<"high", "medium", "low", "positive">>

calculate_overall_risk_ignoring_blocking(assessment) ==
    LET risk_levels ==
            (IF Present(assessment.risk) THEN {assessment.risk.risk_level} ELSE {})
            \cup (IF Present(assessment.compatibility) /\ ~ assessment.compatibility.compatible
                  THEN {"high"} ELSE {})
            \cup (IF Present(assessment.security)
                  THEN IF assessment.security.security_score = "concerning" THEN {"medium"}
                       ELSE IF assessment.security.security_score = "improved" THEN {"positive"}
                       ELSE {}
                  ELSE {})
    IN  IF risk_levels = {} THEN "medium"
        ELSE risk_order[CHOOSE i \in 1..Len(risk_order) :
                            /\ risk_order[i] \in risk_levels
                            /\ \A j \in 1..(i - 1) : risk_order[j] \notin risk_levels]

\* AgentOrchestrator._calculate_overall_risk
calculate_overall_risk(assessment) ==
    IF assessment.blocking_issues /= <<>> THEN "high"
    ELSE
    LET risk_levels ==
            (IF Present(assessment.risk) THEN {assessment.risk.risk_level} ELSE {})
            \cup (IF Present(assessment.compatibility) /\ ~ assessment.compatibility.compatible
                  THEN {"high"} ELSE {})
            \cup (IF Present(assessment.security)
                  THEN IF assessment.security.security_score = "concerning" THEN {"medium"}
                       ELSE IF assessment.security.security_score = "improved" THEN {"positive"}
                       ELSE {}
                  ELSE {})
    IN  IF risk_levels = {} THEN "medium"
        ELSE risk_order[CHOOSE i \in 1..Len(risk_order) :
                            /\ risk_order[i] \in risk_levels
                            /\ \A j \in 1..(i - 1) : risk_order[j] \notin risk_levels]

should_recommend_cautious(assessment) ==
    IF assessment.blocking_issues /= <<>> THEN FALSE
    ELSE IF assessment.overall_risk = "high" THEN FALSE
    ELSE IF Present(assessment.security) /\ assessment.security.upgrade_recommended THEN TRUE
    ELSE IF /\ assessment.overall_risk \in {"low", "positive"}
            /\ \/ Present(assessment.compatibility) /\ assessment.compatibility.compatible
               \/ ~ Present(assessment.compatibility)
         THEN TRUE
    ELSE FALSE

should_recommend_security_first(assessment) ==
    IF Present(assessment.security) /\ assessment.security.upgrade_recommended THEN TRUE
    ELSE IF assessment.blocking_issues /= <<>> THEN FALSE
    ELSE IF assessment.overall_risk = "high" THEN FALSE
    ELSE IF /\ assessment.overall_risk \in {"low", "positive"}
            /\ \/ Present(assessment.compatibility) /\ assessment.compatibility.compatible
               \/ ~ Present(assessment.compatibility)
         THEN TRUE
    ELSE IF assessment.overall_risk = "medium" THEN TRUE
    ELSE FALSE

\* AgentOrchestrator._should_recommend
should_recommend(assessment) ==
    IF assessment.blocking_issues /= <<>> THEN FALSE
    ELSE IF assessment.overall_risk = "high" THEN FALSE
    ELSE IF Present(assessment.security) /\ assessment.security.upgrade_recommended THEN TRUE
    ELSE IF /\ assessment.overall_risk \in {"low", "positive"}
            /\ \/ Present(assessment.compatibility) /\ assessment.compatibility.compatible
               \/ ~ Present(assessment.compatibility)
         THEN TRUE
    ELSE IF assessment.overall_risk = "medium" THEN TRUE
    ELSE FALSE

\* AgentOrchestrator._generate_summary: the parts after the heading
generate_summary(assessment) ==
    (IF assessment.improvements /= <<>> THEN <<"improvement(s)">> ELSE <<>>)
    \o (IF assessment.warnings /= <<>> THEN <<"warning(s)">> ELSE <<>>)
    \o (IF assessment.blocking_issues /= <<>> THEN <<"blocking issue(s)">> ELSE <<>>)
    \o (IF assessment.upgrade_recommended THEN <<"Upgrade RECOMMENDED">>
        ELSE <<"Review required before upgrade">>)

\* MultiAgentAssessment(): the defaults of the model class
MultiAgentAssessment ==
    [risk |-> NoResult, security |-> NoResult, compatibility |-> NoResult,
     overall_risk |-> "medium", overall_summary |-> <<>>, upgrade_recommended |-> FALSE,
     blocking_issues |-> <<>>, warnings |-> <<>>, improvements |-> <<>>,
     agents_succeeded |-> <<>>, agents_failed |-> <<>>]

\* the names of the entries of results whose result is not None (succeeded)
\* or is None, in dict order
NamesWhere(results, succeeded) ==
    LET kept == SelectSeq(results, LAMBDA e : Present(e.result) = succeeded)
    IN  [i \in 1..Len(kept) |-> kept[i].name]

\* AgentOrchestrator._aggregate
aggregate(results) ==
    LET risk == Get_result(results, "risk_assessor")
        security == Get_result(results, "security_auditor")
        compatibility == Get_result(results, "compatibility")
        from_risk(critical) ==
            IF ~ Present(risk) THEN <<>>
            ELSE (IF critical /\ risk.risk_level = "high" THEN <<"High risk">>
                  ELSE IF ~ critical /\ risk.risk_level = "medium" THEN <<"Medium risk">>
                  ELSE <<>>)
                 \o Concat([i \in 1..Len(risk.breaking_changes) |->
                        IF risk.breaking_changes[i] = "critical"
                        THEN IF critical THEN <<"Breaking">> ELSE <<>>
                        ELSE IF critical THEN <<>> ELSE <<"Breaking (other)">>])
        security_warnings ==
            IF ~ Present(security) THEN <<>>
            ELSE (IF security.security_score = "concerning" THEN <<"Security concern">>
                  ELSE <<>>)
                 \o [i \in 1..Len(security.security_concerns) |-> "Security"]
        security_improvements ==
            IF ~ Present(security) THEN <<>>
            ELSE (IF security.security_score = "improved" THEN <<"Security improved">>
                  ELSE <<>>)
                 \o Concat([i \in 1..Len(security.vulnerabilities_fixed) |->
                        IF security.vulnerabilities_fixed[i] = "fixes_current"
                        THEN <<"Fixes">> ELSE <<>>])
        from_compatibility(blocking) ==
            IF ~ Present(compatibility) THEN <<>>
            ELSE (IF blocking /\ ~ compatibility.compatible THEN <<"Incompatible">> ELSE <<>>)
                 \o (IF blocking /\ ~ compatibility.python_compatible
                     THEN <<"Python not supported">> ELSE <<>>)
                 \o Concat([i \in 1..Len(compatibility.issues) |->
                        IF compatibility.issues[i] = "blocking"
                        THEN IF blocking THEN <<"Compatibility">> ELSE <<>>
                        ELSE IF blocking THEN <<>> ELSE <<"Compatibility (other)">>])
        collected ==
            [MultiAgentAssessment EXCEPT
                !.risk = risk, !.security = security, !.compatibility = compatibility,
                !.agents_succeeded = NamesWhere(results, TRUE),
                !.agents_failed = NamesWhere(results, FALSE),
                !.blocking_issues = from_risk(TRUE) \o from_compatibility(TRUE),
                !.warnings = from_risk(FALSE) \o security_warnings
                             \o from_compatibility(FALSE),
                !.improvements = security_improvements]
        with_risk == [collected EXCEPT !.overall_risk = calculate_overall_risk(collected)]
        with_recommendation ==
            [with_risk EXCEPT !.upgrade_recommended = should_recommend(with_risk)]
    IN  [with_recommendation EXCEPT !.overall_summary = generate_summary(with_recommendation)]

\* what an analysis wrapper is made of: the class of its analyze method
\* ("raising" is a wrapper whose analyze raises, the case the orchestrator's
\* handlers are written for), self.llm, the text of ANVIL_MAX_CHANGELOG_CHARS
\* and what the backend does when the chain is invoked
Wrapper(wrapper, llm, max_chars, backend) ==
    [wrapper |-> wrapper, llm |-> llm, max_chars |-> max_chars, backend |-> backend]

Unreachable == [kind |-> "unreachable"]

Malformed == [kind |-> "malformed"]

Raised == [kind |-> "raise"]

Pending == [kind |-> "pending"]

\* a backend that never answers: chain.invoke does not return
Hangs == [kind |-> "hang"]

\* an agent whose analyze has not been called
NotCalled == [value |-> Pending, invoked |-> FALSE]

Working(backend) == Wrapper("BaseAgent", "configured", "valid", backend)

NoBackend == Wrapper("BaseAgent", None, "valid", Unreachable)

OrIdle ==
    /\ or_pc = "idle"
    /\ or_mode = "sequential"
    /\ or_world = [name \in AgentNames |-> NoBackend]
    /\ or_returned = [name \in AgentNames |-> Pending]
    /\ or_call = [name \in AgentNames |-> NotCalled]
    /\ or_order = <<>>
    /\ or_assessment = MultiAgentAssessment

\* no changelog lookup of the repository client is being followed
GhIdle ==
    /\ gh_pc = "idle"
    /\ gh_world = [versions |-> "valid", releases |-> "non200", tag |-> "none",
                   file |-> "missing", readme |-> "unavailable"]
    /\ gh_tried = <<>>
    /\ gh_result = None

\* no release-range aggregation is being followed
RrIdle ==
    /\ rr_pc = "idle"
    /\ rr_in = [package_name |-> <<>>, current |-> 1, latest |-> 1, releases |-> <<>>]
    /\ rr_i = 0
    /\ rr_parsed = <<>>
    /\ rr_notes = <<>>

\* no registry lookup is being followed
PyIdle ==
    /\ py_pc = "idle"
    /\ py_in = [status |-> "error", project_urls |-> <<>>, home_page |-> <<>>]
    /\ py_i = 0
    /\ py_result = None

PvIdle ==
    /\ pv_pc = "idle"
    /\ pv_in = [version_file |-> [state |-> "absent", text |-> <<>>],
                pyproject |-> [state |-> "absent", has_requires |-> FALSE, spec |-> <<>>],
                interpreter |-> [outcome |-> "raise", stdout |-> <<>>]]
    /\ pv_result = <<>>

Init == InitWorkflow /\ GhIdle /\ RrIdle /\ PyIdle /\ OrIdle /\ PvIdle

Next ==
    \/ scan_node
    \/ select_node_no_ui
    \/ select_node
    \/ analyze_node
    \/ confirm_node
    \/ install_node
    \/ run_tests_node
    \/ commit_node
    \/ rollback_node
    \/ next_node
    \/ done_node

Spec == Init /\ [][Next]_vars

FairSpec == Spec /\ WF_vars(Next)

TypeOK ==
    /\ node \in PerPackageNodes \cup {"scan", "select", "next", "done", "END"}
    /\ phase \in Phases
    /\ current_index \in 0 .. MaxDeps

(***************************************************************************)
(* Collaborators that raise.  Only the changelog retrieval is wrapped in   *)
(* try/except (analyze_node); an exception of any other collaborator call  *)
(* leaves the handler, no update is applied and the run is aborted.        *)
(***************************************************************************)
RaisedCall(by, op) ==
    [op |-> op, by |-> by, index |-> current_index, name |-> CurrentPkg.name,
     version |-> None, update_manifest |-> FALSE, result |-> "raised"]

Abort(by, op) ==
    /\ node = by
    /\ InRange
    /\ calls' = Append(calls, RaisedCall(by, op))
    /\ node' = "aborted"
    /\ UNCHANGED <<phase, dependencies, dashboard_data, selected_packages, current_index,
                   packages, completed, failed, skipped, errors>>
    /\ UNCHANGED aside

\* DependencyGraph.build / get_dependents, or AgentOrchestrator(...).analyze, raises
analyze_node_raises == \E op \in {"get_dependents", "analyze"} : Abort("analyze", op)

install_node_raises == Abort("install", "install")

run_tests_node_raises == Abort("test", "run_tests")

commit_node_raises == Abort("commit", "install")

rollback_node_raises == Abort("rollback", "install")

NextRaise ==
    \/ Next
    \/ analyze_node_raises
    \/ install_node_raises
    \/ run_tests_node_raises
    \/ commit_node_raises
    \/ rollback_node_raises

SpecRaise == Init /\ [][NextRaise]_vars

(***************************************************************************)
(* GitHubRetriever.get_changelog (src/anvil/retrievers/github.py): the     *)
(* four strategies, each computed from what the version strings and the    *)
(* repository hold, and tried in the order of the method's body.           *)
(***************************************************************************)
\* what one lookup can meet:
\*   versions  whether packaging's parse accepts current_version and
\*             target_version ("missing" and "N/A" of a dashboard row are not
\*             versions)
\*   releases  the releases listing: request error, non-200 answer, no release
\*             with a body inside the range, or at least one
\*   tag       the release of target_version's tags: none answers 200, the
\*             first that does has an empty body, or it has a body
\*   file      the standard changelog files: none has content, the first with
\*             content decodes to text, it decodes to the empty string, or
\*             its content is not well-formed base64 (b64decode raises)
\*   readme    the README: not retrievable, without a relative changelog link,
\*             or with one to a file that is missing, has text, or decodes to
\*             the empty string
Worlds ==
    [versions : {"valid", "invalid"},
     releases : {"error", "non200", "none_in_range", "notes"},
     tag      : {"none", "empty_body", "body"},
     file     : {"missing", "text", "decodes_empty", "bad_base64"},
     readme   : {"unavailable", "no_link", "link_missing", "link_text", "link_empty"}]

\* parse(current_version) and parse(latest_version) stand in a try that
\* catches ImportError only: a string that parse rejects (InvalidVersion)
\* leaves the method as an exception; a packaging release that still accepts
\* any string behaves as versions = "valid".  Everything after the parse is
\* inside try ... except Exception
fetch_all_releases_in_range(w) ==
    IF w.versions = "invalid" THEN "raise"
    ELSE IF w.releases = "notes" THEN "range_text"
    ELSE None

\* data.get("body") of the first tag that answers 200
get_release_note(w) ==
    IF w.tag = "body" THEN "release_text"
    ELSE IF w.tag = "empty_body" THEN ""
    ELSE None

\* base64.b64decode(content).decode("utf-8", errors="ignore") of the first
\* file with content; only requests.RequestException is caught around it
get_changelog_file(w) ==
    IF w.file = "text" THEN "file_text"
    ELSE IF w.file = "decodes_empty" THEN ""
    ELSE IF w.file = "bad_base64" THEN "raise"
    ELSE None

\* _get_changelog_file(..., specific_filename=clean_link) of the first
\* relative link, all inside try ... except Exception
scan_readme_for_changelog(w) ==
    IF w.readme = "link_text" THEN "readme_text"
    ELSE IF w.readme = "link_empty" THEN ""
    ELSE None

Strategies == <<"range", "release", "file", "readme">>

StrategyOutcome(s, w) ==
    IF s = "range" THEN fetch_all_releases_in_range(w)
    ELSE IF s = "release" THEN get_release_note(w)
    ELSE IF s = "file" THEN get_changelog_file(w)
    ELSE scan_readme_for_changelog(w)

\* one of the three guarded strategies: `x = strategy(...); if x: return x`
GhTry(s, following) ==
    /\ gh_pc = s
    /\ gh_tried' = Append(gh_tried, s)
    /\ LET x == StrategyOutcome(s, gh_world)
       IN  IF x = "raise"
           THEN gh_pc' = "raised" /\ gh_result' = gh_result
           ELSE IF ~Falsy(x)
           THEN gh_pc' = "returned" /\ gh_result' = x
           ELSE gh_pc' = following /\ gh_result' = gh_result
    /\ UNCHANGED <<gh_world, wf, rr, py, orch, pv>>

gh_range == GhTry("range", "release")

gh_release == GhTry("release", "file")

gh_file == GhTry("file", "readme")

\* `return self._scan_readme_for_changelog(repo_slug, subdirectory)`
gh_readme ==
    /\ gh_pc = "readme"
    /\ gh_tried' = Append(gh_tried, "readme")
    /\ gh_result' = StrategyOutcome("readme", gh_world)
    /\ gh_pc' = "returned"
    /\ UNCHANGED <<gh_world, wf, rr, py, orch, pv>>

InitGH ==
    /\ InitWorkflow
    /\ gh_pc = "range"
    /\ gh_world \in Worlds
    /\ gh_tried = <<>>
    /\ gh_result = None
    /\ RrIdle
    /\ PyIdle
    /\ OrIdle
    /\ PvIdle

NextGH ==
    \/ gh_range
    \/ gh_release
    \/ gh_file
    \/ gh_readme

SpecGH == InitGH /\ [][NextGH]_vars

(***************************************************************************)
(* GitHubRetriever._fetch_all_releases_in_range, the loop over the         *)
(* releases listing (github.py, lines 74-108).  Strings are sequences of   *)
(* characters; a version is a positive number written as one digit.        *)
(***************************************************************************)
MaxVer == 3

MaxReleases == 2

Digits == <<"1", "2", "3", "4", "5", "6", "7", "8", "9">>

Versions == 1 .. MaxVer

\* str(version)
VerStr(v) == <<Digits[v]>>

\* packaging.version.parse: the version a string stands for, 0 when it raises
\* InvalidVersion; parse accepts one leading "v"
parse(str) ==
    LET body == IF str /= <<>> /\ Head(str) = "v" THEN Tail(str) ELSE str
    IN  IF Len(body) = 1 /\ \E v \in Versions : body = VerStr(v)
        THEN CHOOSE v \in Versions : body = VerStr(v)
        ELSE 0

\* str.startswith(prefix)
StartsWith(str, prefix) ==
    /\ Len(prefix) <= Len(str)
    /\ SubSeq(str, 1, Len(prefix)) = prefix

\* prefixes = [f"{package_name}==", f"{package_name}@", f"{package_name}-v", f"{package_name}-"]
Prefixes(package_name) ==
    <<package_name \o <<"=", "=">>, package_name \o <<"@">>,
      package_name \o <<"-", "v">>, package_name \o <<"-">>>>

\* the first prefix of the list, from position i on, that the string starts
\* with is cut off (for prefix in prefixes: if startswith: strip; break)
RECURSIVE StripFirstPrefix(_, _, _)
StripFirstPrefix(str, prefixes, i) ==
    IF i > Len(prefixes) THEN str
    ELSE IF StartsWith(str, prefixes[i])
         THEN SubSeq(str, Len(prefixes[i]) + 1, Len(str))
         ELSE StripFirstPrefix(str, prefixes, i + 1)

\* version_str: the tag with its known prefix stripped (lines 82-92); an
\* empty sequence stands for a package_name that is None or ""
VersionStr(tag_name, package_name) ==
    IF StartsWith(tag_name, <<"v">>) THEN Tail(tag_name)
    ELSE IF package_name /= <<>>
         THEN StripFirstPrefix(tag_name, Prefixes(package_name), 1)
         ELSE tag_name

\* variant: the lower end of the range is included
Included_from_current(rel_ver, body, current, latest) ==
    /\ rel_ver /= 0
    /\ current <= rel_ver /\ rel_ver <= latest
    /\ body /= ""

\* lines 94-103: the release is appended when its version parses, lies in
\* current < rel_ver <= latest, and it has a body
Included(rel_ver, body, current, latest) ==
    /\ rel_ver /= 0
    /\ current < rel_ver /\ rel_ver <= latest
    /\ body /= ""

\* one pass of the loop body
rr_release ==
    /\ rr_pc = "loop"
    /\ rr_i < Len(rr_in.releases)
    /\ LET release == rr_in.releases[rr_i + 1]
           rel_ver == parse(VersionStr(release.tag_name, rr_in.package_name))
       IN  /\ rr_parsed' = Append(rr_parsed, rel_ver)
           /\ rr_notes' = IF Included(rel_ver, release.body, rr_in.current, rr_in.latest)
                          THEN Append(rr_notes, release.tag_name)
                          ELSE rr_notes
    /\ rr_i' = rr_i + 1
    /\ UNCHANGED <<rr_pc, rr_in, wf, gh, py, orch, pv>>

\* after the loop: `if relevant_notes: return "\n\n".join(relevant_notes)`,
\* else the final `return None`
rr_return ==
    /\ rr_pc = "loop"
    /\ rr_i = Len(rr_in.releases)
    /\ rr_pc' = "returned"
    /\ UNCHANGED <<rr_in, rr_i, rr_parsed, rr_notes, wf, gh, py, orch, pv>>

\* what the call returned
RrResult == IF rr_notes /= <<>> THEN rr_notes ELSE None

NextRR ==
    \/ rr_release
    \/ rr_return

\* the six tag forms of a release of version v of package p
TagStyles == {"P==V", "P@V", "P-V", "P-vV", "vV", "V"}

MakeTag(style, p, v) ==
    IF style = "P==V" THEN p \o <<"=", "=">> \o VerStr(v)
    ELSE IF style = "P@V" THEN p \o <<"@">> \o VerStr(v)
    ELSE IF style = "P-V" THEN p \o <<"-">> \o VerStr(v)
    ELSE IF style = "P-vV" THEN p \o <<"-", "v">> \o VerStr(v)
    ELSE IF style = "vV" THEN <<"v">> \o VerStr(v)
    ELSE VerStr(v)

Bodies == {"", "notes"}

\* listings of up to MaxReleases releases tagged vV, V or with a word that is
\* no version, for a package whose tags carry no package prefix
PlainReleases ==
    [tag_name : {MakeTag(st, <<>>, v) : st \in {"vV", "V"}, v \in Versions}
                    \cup {<<"l", "t", "s">>},
     body : Bodies]

Listings(R) == UNION {[1 .. n -> R] : n \in 0 .. MaxReleases}

InitRange ==
    /\ InitWorkflow
    /\ GhIdle
    /\ rr_pc = "loop"
    /\ rr_in \in [package_name : {<<"f", "o">>}, current : Versions, latest : Versions,
                  releases : Listings(PlainReleases)]
    /\ rr_i = 0
    /\ rr_parsed = <<>>
    /\ rr_notes = <<>>
    /\ PyIdle
    /\ OrIdle
    /\ PvIdle

SpecRange == InitRange /\ [][NextRR]_vars

\* listings of one release in any of the six tag forms, for packages whose
\* name does and does not begin with the letter v, and for calls without a
\* package name
PackageNames == {<<>>, <<"f", "o">>, <<"v", "o">>}

InitTag ==
    /\ InitWorkflow
    /\ GhIdle
    /\ rr_pc = "loop"
    /\ \E p \in PackageNames :
          rr_in \in [package_name : {p}, current : Versions, latest : Versions,
                     releases : {<<[tag_name |-> MakeTag(st, q, v), body |-> b]>> :
                                    st \in TagStyles, q \in {p} \cup (PackageNames \ {<<>>}),
                                    v \in Versions, b \in Bodies}]
    /\ rr_i = 0
    /\ rr_parsed = <<>>
    /\ rr_notes = <<>>
    /\ PyIdle
    /\ OrIdle
    /\ PvIdle

SpecTag == InitTag /\ [][NextRR]_vars

(***************************************************************************)
(* PyPIRetriever.get_source_url (src/anvil/retrievers/pypi.py).  A URL is  *)
(* a sequence of tokens: its host, its path, and the suffixes ".git" and   *)
(* "/" it ends with.  A key of project_urls is a name in a casing.         *)
(***************************************************************************)
\* candidates, in the order of the list
Candidates ==
    <<"source", "source code", "repository", "code", "home", "homepage",
      "issue tracker", "tracker", "bug tracker">>

\* str.lower() of a key
Lower(key) == [key EXCEPT !.casing = "lower"]

\* the forms a URL of the registry entry takes
UrlForms == {"gh", "gh_git", "gh_slash", "gh_git_slash", "other"}

\* the URL of a form; its path names the field it stands under
Url(form, field) ==
    (IF form = "other" THEN <<"example.org", field>> ELSE <<"github.com", field>>)
    \o (IF form \in {"gh_git", "gh_git_slash"} THEN <<".git">> ELSE <<>>)
    \o (IF form \in {"gh_slash", "gh_git_slash"} THEN <<"/">> ELSE <<>>)

\* "github.com" in url
MentionsGithub(url) == \E i \in DOMAIN url : url[i] = "github.com"

\* url.rstrip("/")
RECURSIVE RStripSlash(_)
RStripSlash(url) ==
    IF url /= <<>> /\ url[Len(url)] = "/"
    THEN RStripSlash(SubSeq(url, 1, Len(url) - 1))
    ELSE url

\* variant: the .git suffix is cut before the trailing slash is
clean_github_url_git_first(url) ==
    LET u == IF url /= <<>> /\ url[Len(url)] = ".git"
             THEN SubSeq(url, 1, Len(url) - 1) ELSE url
    IN  RStripSlash(u)

\* _clean_github_url
clean_github_url(url) ==
    LET u == RStripSlash(url)
    IN  IF u /= <<>> /\ u[Len(u)] = ".git" THEN SubSeq(u, 1, Len(u) - 1) ELSE u

\* urls_lower = {k.lower(): v for k, v in project_urls.items()}
UrlsLower(project_urls) ==
    [k \in {Lower(x) : x \in DOMAIN project_urls} |->
        project_urls[CHOOSE x \in DOMAIN project_urls : Lower(x) = k]]

\* urls_lower.get(key): the empty sequence stands for None
Get(urls, name) ==
    LET k == [name |-> name, casing |-> "lower"]
    IN  IF k \in DOMAIN urls THEN urls[k] ELSE <<>>

\* data = self._fetch_pypi_json(package_name); if not data: return None
py_fetch ==
    /\ py_pc = "fetch"
    /\ IF py_in.status = "ok"
       THEN py_pc' = "candidates" /\ py_result' = py_result
       ELSE py_pc' = "returned" /\ py_result' = None
    /\ UNCHANGED <<py_in, py_i, wf, gh, rr, orch, pv>>

\* one pass of `for key in candidates`
py_candidate ==
    /\ py_pc = "candidates"
    /\ py_i < Len(Candidates)
    /\ LET url == Get(UrlsLower(py_in.project_urls), Candidates[py_i + 1])
       IN  IF url /= <<>> /\ MentionsGithub(url)
           THEN py_pc' = "returned" /\ py_result' = clean_github_url(url)
           ELSE py_pc' = "candidates" /\ py_result' = py_result
    /\ py_i' = py_i + 1
    /\ UNCHANGED <<py_in, wf, gh, rr, orch, pv>>

\* the loop is over: on to info.get("home_page")
py_candidates_done ==
    /\ py_pc = "candidates"
    /\ py_i = Len(Candidates)
    /\ py_pc' = "home_page"
    /\ UNCHANGED <<py_in, py_i, py_result, wf, gh, rr, orch, pv>>

py_home_page ==
    /\ py_pc = "home_page"
    /\ py_result' = IF py_in.home_page /= <<>> /\ MentionsGithub(py_in.home_page)
                    THEN clean_github_url(py_in.home_page)
                    ELSE None
    /\ py_pc' = "returned"
    /\ UNCHANGED <<py_in, py_i, wf, gh, rr, orch, pv>>

\* the keys a registry entry of the input family uses, all in one casing
InputKeyNames == {"source", "homepage", "bug tracker", "documentation"}

Casings == {"lower", "Title"}

ProjectUrls ==
    UNION {{[k \in {[name |-> n, casing |-> c] : n \in K} |-> Url(forms[k.name], k.name)]
                : forms \in [K -> {"gh", "gh_git_slash", "other"}], c \in Casings}
           : K \in SUBSET InputKeyNames}

HomePages == {<<>>} \cup {Url(f, "home_page") : f \in UrlForms}

InitPy ==
    /\ InitWorkflow
    /\ GhIdle
    /\ RrIdle
    /\ py_pc = "fetch"
    /\ \/ py_in \in [status : {"ok"}, project_urls : ProjectUrls, home_page : HomePages]
       \/ py_in \in [status : {"non200", "error"}, project_urls : {<<>>}, home_page : {<<>>}]
    /\ py_i = 0
    /\ py_result = None
    /\ OrIdle
    /\ PvIdle

NextPy ==
    \/ py_fetch
    \/ py_candidate
    \/ py_candidates_done
    \/ py_home_page

SpecPy == InitPy /\ [][NextPy]_vars

(***************************************************************************)
(* The steps of the wrappers and of the orchestrator.                      *)
(***************************************************************************)
analyze_unguarded(agent) ==
    IF agent.llm = None THEN [value |-> NoResult, invoked |-> FALSE]
    ELSE IF agent.max_chars = "invalid" THEN [value |-> Raised, invoked |-> FALSE]
    ELSE IF agent.backend.kind \in {"unreachable", "malformed"}
         THEN [value |-> Raised, invoked |-> TRUE]
    ELSE [value |-> agent.backend, invoked |-> TRUE]

\* BaseAgent.analyze: the value it returns and whether chain.invoke was reached
analyze(agent) ==
    IF agent.llm = None THEN [value |-> NoResult, invoked |-> FALSE]
    ELSE IF agent.max_chars = "invalid" THEN [value |-> NoResult, invoked |-> FALSE]
    ELSE IF agent.backend.kind \in {"unreachable", "malformed"}
         THEN [value |-> NoResult, invoked |-> TRUE]
    ELSE [value |-> agent.backend, invoked |-> TRUE]

\* BaseAgent.analyze_async: the same steps around chain.ainvoke
analyze_async(agent) ==
    IF agent.llm = None THEN [value |-> NoResult, invoked |-> FALSE]
    ELSE IF agent.max_chars = "invalid" THEN [value |-> NoResult, invoked |-> FALSE]
    ELSE IF agent.backend.kind \in {"unreachable", "malformed"}
         THEN [value |-> NoResult, invoked |-> TRUE]
    ELSE [value |-> agent.backend, invoked |-> TRUE]

\* the call of the wrapper reaches the backend and the backend never answers:
\* neither method sets a time limit, so the call never returns
NeverReturns(agent) ==
    /\ agent.wrapper = "BaseAgent"
    /\ agent.llm /= None
    /\ agent.max_chars = "valid"
    /\ agent.backend = Hangs

\* agent.analyze(context) as the orchestrator calls it
call_analyze(agent) ==
    IF agent.wrapper = "raising" THEN [value |-> Raised, invoked |-> FALSE]
    ELSE analyze(agent)

\* agent.analyze_async(context) as the orchestrator calls it
call_analyze_async(agent) ==
    IF agent.wrapper = "raising" THEN [value |-> Raised, invoked |-> FALSE]
    ELSE analyze_async(agent)

\* the orchestrator keeps kept.value for the agent whose call did call
Record(name, call, kept) ==
    /\ or_returned' = [or_returned EXCEPT ![name] = kept.value]
    /\ or_call' = [or_call EXCEPT ![name] = call]
    /\ or_order' = Append(or_order, name)
    /\ UNCHANGED <<or_pc, or_mode, or_world, or_assessment, wf, gh, rr, py, pv>>

\* except Exception: the result of the agent is None
Caught(call) ==
    IF call.value.kind = "raise" THEN [call EXCEPT !.value = NoResult] ELSE call

run_sequential_aborting(i) ==
    /\ or_pc = "running"
    /\ or_mode = "sequential"
    /\ or_returned[agents[i]] = Pending
    /\ ~ NeverReturns(or_world[agents[i]])
    /\ \A j \in 1..(i - 1) : or_returned[agents[j]] /= Pending
    /\ LET call == call_analyze(or_world[agents[i]])
       IN  IF call.value = Raised
           THEN /\ or_returned' = [name \in AgentNames |->
                                      IF or_returned[name] = Pending THEN NoResult
                                      ELSE or_returned[name]]
                /\ or_call' = [or_call EXCEPT ![agents[i]] = call]
                /\ or_order' = Append(or_order, agents[i])
                /\ UNCHANGED <<or_pc, or_mode, or_world, or_assessment, wf, gh, rr, py, pv>>
           ELSE Record(agents[i], call, call)

\* AgentOrchestrator._run_sequential: one iteration of the loop over self.agents
run_sequential(i) ==
    /\ or_pc = "running"
    /\ or_mode = "sequential"
    /\ or_returned[agents[i]] = Pending
    /\ ~ NeverReturns(or_world[agents[i]])
    /\ \A j \in 1..(i - 1) : or_returned[agents[j]] /= Pending
    /\ LET call == call_analyze(or_world[agents[i]])
       IN  Record(agents[i], call, Caught(call))

\* AgentOrchestrator._run_parallel: run_agent in a worker of the thread pool
run_agent(i) ==
    /\ or_pc = "running"
    /\ or_mode = "parallel"
    /\ or_returned[agents[i]] = Pending
    /\ ~ NeverReturns(or_world[agents[i]])
    /\ LET call == call_analyze(or_world[agents[i]])
       IN  Record(agents[i], call, Caught(call))

\* AgentOrchestrator.analyze_async: one task of asyncio.gather, which keeps
\* the exception of a task as its result (return_exceptions=True)
gather_task(i) ==
    /\ or_pc = "running"
    /\ or_mode = "async"
    /\ or_returned[agents[i]] = Pending
    /\ ~ NeverReturns(or_world[agents[i]])
    /\ LET call == call_analyze_async(or_world[agents[i]])
       IN  Record(agents[i], call, call)

ResultsDict_as_completed(returned) ==
    [i \in 1..Len(or_order) |->
        [name |-> or_order[i],
         result |-> IF returned[or_order[i]].kind = "raise" THEN NoResult
                    ELSE returned[or_order[i]]]]

\* the results dict: one entry per agent, inserted in the order of self.agents
\* (the loop of _run_sequential, the loop over futures, the zip with results_list)
ResultsDict(returned) ==
    [i \in 1..Len(agents) |->
        [name |-> agents[i],
         result |-> IF returned[agents[i]].kind = "raise" THEN NoResult
                    ELSE returned[agents[i]]]]

analyze_return_early ==
    /\ or_pc = "running"
    /\ or_mode \in {"sequential", "parallel"}
    /\ or_assessment' =
           aggregate(ResultsDict([name \in AgentNames |->
                                     IF or_returned[name] = Pending THEN NoResult
                                     ELSE or_returned[name]]))
    /\ or_pc' = "aggregated"
    /\ UNCHANGED <<or_mode, or_world, or_returned, or_call, or_order, wf, gh, rr, py, pv>>

\* AgentOrchestrator.analyze, from the join to the return: every future has
\* its result, or the loop is over, and the results are aggregated
analyze_return ==
    /\ or_pc = "running"
    /\ or_mode \in {"sequential", "parallel"}
    /\ \A name \in AgentNames : or_returned[name] /= Pending
    /\ or_assessment' = aggregate(ResultsDict(or_returned))
    /\ or_pc' = "aggregated"
    /\ UNCHANGED <<or_mode, or_world, or_returned, or_call, or_order, wf, gh, rr, py, pv>>

\* AgentOrchestrator.analyze_async, from the end of gather to the return
analyze_async_return ==
    /\ or_pc = "running"
    /\ or_mode = "async"
    /\ \A name \in AgentNames : or_returned[name] /= Pending
    /\ or_assessment' = aggregate(ResultsDict(or_returned))
    /\ or_pc' = "aggregated"
    /\ UNCHANGED <<or_mode, or_world, or_returned, or_call, or_order, wf, gh, rr, py, pv>>

\* _calculate_overall_risk applied to an assessment built by hand, and its
\* value stored as in _aggregate
calculate_overall_risk_call ==
    /\ or_pc = "direct"
    /\ or_assessment' =
           [or_assessment EXCEPT !.overall_risk = calculate_overall_risk(or_assessment)]
    /\ or_pc' = "risk_calculated"
    /\ UNCHANGED <<or_mode, or_world, or_returned, or_call, or_order, wf, gh, rr, py, pv>>

\* _should_recommend applied to an assessment built by hand
should_recommend_call ==
    /\ or_pc \in {"direct", "risk_calculated"}
    /\ or_assessment' =
           [or_assessment EXCEPT !.upgrade_recommended = should_recommend(or_assessment)]
    /\ or_pc' = "recommended"
    /\ UNCHANGED <<or_mode, or_world, or_returned, or_call, or_order, wf, gh, rr, py, pv>>

Modes == {"sequential", "parallel", "async"}

\* the wrappers a run of the orchestrator is made with: no backend, a bad
\* character budget, a backend that fails, a wrapper that raises, and a
\* working backend answering with one of two assessments
OrchAssessments(name) ==
    CASE name = "risk_assessor" ->
             {[kind |-> "risk", risk_level |-> "low", breaking_changes |-> <<>>],
              [kind |-> "risk", risk_level |-> "high", breaking_changes |-> <<"critical">>]}
      [] name = "security_auditor" ->
             {[kind |-> "security", security_score |-> "improved",
               upgrade_recommended |-> TRUE,
               vulnerabilities_fixed |-> <<"fixes_current", "not_current">>,
               security_concerns |-> <<>>],
              [kind |-> "security", security_score |-> "concerning",
               upgrade_recommended |-> FALSE, vulnerabilities_fixed |-> <<>>,
               security_concerns |-> <<"concern">>]}
      [] name = "compatibility" ->
             {[kind |-> "compatibility", compatible |-> TRUE, python_compatible |-> TRUE,
               issues |-> <<"warning">>],
              [kind |-> "compatibility", compatible |-> FALSE, python_compatible |-> TRUE,
               issues |-> <<"blocking">>]}

Wrappers(name) ==
    {NoBackend,
     Wrapper("BaseAgent", "configured", "invalid", Unreachable),
     Working(Unreachable), Working(Malformed), Working(Hangs),
     Wrapper("raising", "configured", "valid", Unreachable)}
    \cup {Working(backend) : backend \in OrchAssessments(name)}

InitOrch ==
    /\ InitWorkflow
    /\ GhIdle
    /\ RrIdle
    /\ PyIdle
    /\ or_pc = "running"
    /\ or_mode \in Modes
    /\ or_world \in [AgentNames -> UNION {Wrappers(name) : name \in AgentNames}]
    /\ \A name \in AgentNames : or_world[name] \in Wrappers(name)
    /\ or_returned = [name \in AgentNames |-> Pending]
    /\ or_call = [name \in AgentNames |-> NotCalled]
    /\ or_order = <<>>
    /\ or_assessment = MultiAgentAssessment
    /\ PvIdle

NextOrch ==
    \/ \E i \in 1..Len(agents) : run_sequential(i)
    \/ \E i \in 1..Len(agents) : run_agent(i)
    \/ \E i \in 1..Len(agents) : gather_task(i)
    \/ analyze_return
    \/ analyze_async_return

SpecOrch == InitOrch /\ [][NextOrch]_vars

\* the worker threads, the event loop and the calling thread all keep running
FairSpecOrch == SpecOrch /\ WF_vars(NextOrch)

\* the assessments the aggregation functions are applied to directly
HandBuilt ==
    {[MultiAgentAssessment EXCEPT
          !.risk = risk, !.security = security, !.compatibility = compatibility,
          !.blocking_issues = blocking_issues, !.overall_risk = overall_risk] :
        risk \in {NoResult} \cup {r \in RiskAssessments : r.breaking_changes = <<>>},
        security \in {NoResult}
            \cup {s \in SecurityAssessments :
                      s.vulnerabilities_fixed = <<>> /\ s.security_concerns = <<>>},
        compatibility \in {NoResult}
            \cup {c \in CompatibilityAssessments : c.python_compatible /\ c.issues = <<>>},
        blocking_issues \in {<<>>, <<"Something is blocking">>},
        overall_risk \in Levels}

\* the orchestrator at its join, with any assessment or None from each wrapper
InitJoined ==
    /\ or_pc = "running"
    /\ or_mode = "sequential"
    /\ or_returned \in [AgentNames ->
                           {NoResult} \cup UNION {Assessments(name) : name \in AgentNames}]
    /\ \A name \in AgentNames : or_returned[name] \in {NoResult} \cup Assessments(name)
    /\ or_world = [name \in AgentNames |->
                      IF Present(or_returned[name]) THEN Working(or_returned[name])
                      ELSE NoBackend]
    /\ or_call = [name \in AgentNames |-> analyze(or_world[name])]
    /\ or_order = agents
    /\ or_assessment = MultiAgentAssessment

InitDirect ==
    /\ or_pc = "direct"
    /\ or_mode = "sequential"
    /\ or_world = [name \in AgentNames |-> NoBackend]
    /\ or_returned = [name \in AgentNames |-> Pending]
    /\ or_call = [name \in AgentNames |-> NotCalled]
    /\ or_order = <<>>
    /\ or_assessment \in HandBuilt

InitAggr ==
    /\ InitWorkflow
    /\ GhIdle
    /\ RrIdle
    /\ PyIdle
    /\ InitJoined \/ InitDirect
    /\ PvIdle

NextAggr ==
    \/ analyze_return
    \/ calculate_overall_risk_call
    \/ should_recommend_call

SpecAggr == InitAggr /\ [][NextAggr]_vars

(***************************************************************************)
(* _detect_project_python_version (src/anvil/agent/nodes/analyze.py).      *)
(*                                                                         *)
(* A text is the sequence of its words and white-space runs; the regular   *)
(* expressions of the function look for a word that is a version number.   *)
(***************************************************************************)
WhiteSpace == {" ", "\n"}

\* the words \d+\.\d+\.\d+ matches in full
ThreePartVersions == {"3.12.0", "3.13.2", "3.10.4"}

\* the words \d+\.\d+(?:\.\d+)? matches in full
VersionNumbers == ThreePartVersions \cup {"3.11", "4.0"}

\* str.strip
RECURSIVE LStrip(_)
LStrip(text) ==
    IF text /= <<>> /\ Head(text) \in WhiteSpace THEN LStrip(Tail(text)) ELSE text

Strip(text) == Reverse(LStrip(Reverse(LStrip(text))))

\* re.search(r'(\d+\.\d+(?:\.\d+)?)', spec): the first version number of spec
version_match(spec) ==
    LET hits == SelectSeq(spec, LAMBDA word : word \in VersionNumbers)
    IN  IF hits = <<>> THEN <<>> ELSE <<Head(hits)>>

\* re.search(r'Python\s+(\d+\.\d+\.\d+)', stdout)
interpreter_match(stdout) ==
    IF \E i \in 1..(Len(stdout) - 2) :
           /\ stdout[i] = "Python"
           /\ stdout[i + 1] \in WhiteSpace
           /\ stdout[i + 2] \in ThreePartVersions
    THEN <<stdout[(CHOOSE i \in 1..(Len(stdout) - 2) :
                       /\ stdout[i] = "Python"
                       /\ stdout[i + 1] \in WhiteSpace
                       /\ stdout[i + 2] \in ThreePartVersions
                       /\ \A j \in 1..(i - 1) :
                              ~ (/\ stdout[j] = "Python"
                                 /\ stdout[j + 1] \in WhiteSpace
                                 /\ stdout[j + 2] \in ThreePartVersions)) + 2]>>
    ELSE <<>>

\* platform.python_version() of the tool's own runtime
RuntimeVersion == <<"3.10.4">>

PvReturn(version) ==
    /\ pv_result' = version
    /\ pv_pc' = "returned"
    /\ UNCHANGED <<pv_in, wf, gh, rr, py, orch>>

PvGoOn(next) ==
    /\ pv_pc' = next
    /\ UNCHANGED <<pv_in, pv_result, wf, gh, rr, py, orch>>

\* 1. the .python-version file: its stripped text when it exists and reads
pv_version_file ==
    /\ pv_pc = "version_file"
    /\ IF pv_in.version_file.state = "readable"
       THEN PvReturn(Strip(pv_in.version_file.text))
       ELSE PvGoOn("pyproject")

\* 2. requires-python of pyproject.toml: the first version number of the spec
pv_pyproject ==
    /\ pv_pc = "pyproject"
    /\ IF /\ pv_in.pyproject.state = "readable"
          /\ pv_in.pyproject.has_requires
          /\ version_match(pv_in.pyproject.spec) /= <<>>
       THEN PvReturn(version_match(pv_in.pyproject.spec))
       ELSE PvGoOn("interpreter")

\* 3. python --version run in the project directory
pv_interpreter ==
    /\ pv_pc = "interpreter"
    /\ IF /\ pv_in.interpreter.outcome = "ok"
          /\ interpreter_match(pv_in.interpreter.stdout) /= <<>>
       THEN PvReturn(interpreter_match(pv_in.interpreter.stdout))
       ELSE PvGoOn("fallback")

\* 4. the version of the runtime the tool itself runs on
pv_fallback ==
    /\ pv_pc = "fallback"
    /\ PvReturn(RuntimeVersion)

VersionFiles ==
    {[state |-> "absent", text |-> <<>>], [state |-> "unreadable", text |-> <<>>]}
    \cup [state : {"readable"},
          text : {<<"3.12.0", "\n">>, <<"\n">>, <<"system", "\n">>}]

PyprojectFiles ==
    {[state |-> "absent", has_requires |-> FALSE, spec |-> <<>>],
     [state |-> "unreadable", has_requires |-> FALSE, spec |-> <<>>],
     [state |-> "readable", has_requires |-> FALSE, spec |-> <<>>]}
    \cup [state : {"readable"}, has_requires : {TRUE},
          spec : {<<">=", "3.11">>, <<">=", "3.11", ",", "<", "4.0">>, <<"*">>}]

Interpreters ==
    {[outcome |-> "raise", stdout |-> <<>>], [outcome |-> "nonzero", stdout |-> <<>>],
     [outcome |-> "ok", stdout |-> <<>>],
     [outcome |-> "ok", stdout |-> <<"Python", " ", "3.13.2", "\n">>]}

InitPv ==
    /\ InitWorkflow
    /\ GhIdle
    /\ RrIdle
    /\ PyIdle
    /\ OrIdle
    /\ pv_pc = "version_file"
    /\ pv_in \in [version_file : VersionFiles, pyproject : PyprojectFiles,
                  interpreter : Interpreters]
    /\ pv_result = <<>>

NextPv ==
    \/ pv_version_file
    \/ pv_pyproject
    \/ pv_interpreter
    \/ pv_fallback

SpecPv == InitPv /\ [][NextPv]_vars

(***************************************************************************)
(* Properties of the workflow.                                             *)
(***************************************************************************)
Terminal == completed \o failed \o skipped

Count(s, x) == Cardinality({i \in DOMAIN s : s[i] = x})

\* C1: when next runs after package index i has finished, the workflow goes on
\* to analyze package i+1 if i+1 < len(packages) and goes to done only if i was
\* the last index.
C1_NextGoesToFollowingPackage ==
    [][node = "next" =>
          IF current_index + 1 < Len(packages)
          THEN node' = "analyze" /\ current_index' = current_index + 1
          ELSE node' = "done"]_vars

\* C2: when the workflow reaches done, every package of `packages` appears
\* exactly once in exactly one of completed, failed, skipped, so the three
\* lengths add up to len(packages).
C2_EveryPackageAccountedAtDone ==
    node \in {"done", "END"} =>
        /\ \A i \in DOMAIN packages : Count(Terminal, packages[i].name) = 1
        /\ Len(completed) + Len(failed) + Len(skipped) = Len(packages)

\* C3: whenever a per-package handler is about to run,
\* 0 <= current_index < len(packages).
C3_IndexInRange ==
    node \in PerPackageNodes => 0 <= current_index /\ current_index < Len(packages)

\* a per-package handler is about to run on a package that next advanced to
C3_Witness ==
    /\ node \in {"install", "rollback"}
    /\ current_index = 1
    /\ Len(packages) = 3

C5_RouteFollowsPhase ==
    [][(node \in PerPackageNodes \cup {"scan", "select", "next"}) => (node' = phase')]_vars

\* the persisted installs (update_manifest = true) made so far
PersistedCalls == {k \in DOMAIN calls : calls[k].op = "install" /\ calls[k].update_manifest}

\* C6: a persisted install is invoked at most once per package, only by commit,
\* and only after a non-persisted install of the target version succeeded and
\* the test run that followed it passed; a package whose tests failed, whose
\* install failed or that the user declined never has the manifest written.
C6_PersistOnlyAfterTrialAndTests ==
    /\ \A k \in PersistedCalls :
          /\ calls[k].by = "commit"
          /\ calls[k].version = packages[calls[k].index + 1].target_version
          /\ \A j \in PersistedCalls : calls[j].name = calls[k].name => j = k
          /\ \E j \in 1 .. (k - 1) : \E t \in (j + 1) .. (k - 1) :
                /\ calls[j].op = "install" /\ calls[j].by = "install"
                /\ calls[j].index = calls[k].index /\ calls[j].name = calls[k].name
                /\ calls[j].version = calls[k].version
                /\ ~ calls[j].update_manifest /\ calls[j].result = "ok"
                /\ calls[t].op = "run_tests" /\ calls[t].index = calls[k].index
                /\ calls[t].result = "ok"
    /\ \A i \in DOMAIN packages :
          (\/ packages[i].tests_passed = "False"
           \/ packages[i].error = "Installation failed"
           \/ packages[i].name \in Range(skipped))
          => \A k \in PersistedCalls : calls[k].name /= packages[i].name

\* one package was committed to the manifest and another one was not
C6_Witness ==
    /\ PersistedCalls /= {}
    /\ \E i \in DOMAIN packages : packages[i].tests_passed = "False"

\* C7: rollback is reached only after a failed test run; if the user confirms,
\* the original current_version is reinstalled with update_manifest = false;
\* in every case the name is appended to failed and the phase is next; if the
\* reinstall fails the package's error field is set.
C7_Rollback ==
    [][node = "rollback" =>
          /\ CurrentPkg.tests_passed = "False"
          /\ calls[Len(calls)].op = "run_tests" /\ calls[Len(calls)].result = "failed"
          /\ calls[Len(calls)].index = current_index
          /\ failed' = Append(failed, CurrentPkg.name)
          /\ phase' = "next" /\ node' = "next"
          /\ \/ calls' = calls
             \/ /\ Len(calls') = Len(calls) + 1
                /\ LET c == calls'[Len(calls')]
                   IN  /\ c.op = "install" /\ c.by = "rollback"
                       /\ c.name = CurrentPkg.name
                       /\ c.version = CurrentPkg.current_version
                       /\ ~ c.update_manifest
                       /\ c.result = "failed" =>
                             packages'[current_index + 1].error = "Rollback failed"]_vars

\* a rollback reinstall failed and the package carries the error
C7_Witness ==
    \E i \in DOMAIN packages :
       /\ packages[i].error = "Rollback failed"
       /\ packages[i].name \in Range(failed)
       /\ \E k \in DOMAIN calls : calls[k].by = "rollback" /\ calls[k].result = "failed"

\* C8: every package whose name is in failed has a non-null error field.
C8_FailedHasError ==
    \A i \in DOMAIN packages :
       packages[i].name \in Range(failed) => packages[i].error /= None


\* C9: commit calls install with update_manifest = true, appends the name to
\* completed and goes to next whether or not the manifest write succeeds;
\* committed becomes true on success, and on failure stays false with an error
\* note; so an approved, trial-installed package whose tests passed always
\* ends in completed.
C9_CommitAlwaysCompletes ==
    [][/\ node = "commit" =>
             /\ Len(calls') = Len(calls) + 1
             /\ LET c == calls'[Len(calls')]
                    p == packages'[current_index + 1]
                IN  /\ c.op = "install" /\ c.update_manifest
                    /\ c.name = CurrentPkg.name /\ c.version = CurrentPkg.target_version
                    /\ c.result = "ok" => p.committed /\ p.error = CurrentPkg.error
                    /\ c.result = "failed" => ~ p.committed /\ p.error /= None
             /\ completed' = Append(completed, CurrentPkg.name)
             /\ phase' = "next" /\ node' = "next"
       /\ \A i \in DOMAIN packages' :
             (/\ packages'[i].approved /\ packages'[i].installed
              /\ packages'[i].tests_passed = "True"
              /\ i - 1 < current_index' \/ node' \in {"next", "done", "END"})
             => packages'[i].name \in Range(completed')]_vars

\* a manifest write failed and the package is completed all the same
C9_Witness ==
    \E i \in DOMAIN packages :
       /\ packages[i].error = "Manifest update failed"
       /\ ~ packages[i].committed
       /\ packages[i].name \in Range(completed)
       /\ node = "END"

\* C10: if a collaborator call made while processing a package raises, the run
\* is not aborted: the failure is recorded for that package and the workflow
\* still proceeds.
C10_RaiseDoesNotAbort ==
    \A k \in DOMAIN calls :
       calls[k].result = "raised" =>
          /\ node /= "aborted"
          /\ \/ packages[calls[k].index + 1].error /= None
             \/ calls[k].name \in Range(failed)

\* the packages other than the current one are left as they were
OthersUnchanged ==
    /\ Len(packages') = Len(packages)
    /\ \A i \in 1 .. Len(packages) : i /= current_index + 1 => packages'[i] = packages[i]

\* the install and run_tests calls made for packages whose name is in names
InstallOrTestCallsFor(names) ==
    {i \in 1 .. Len(calls) : calls[i].op \in {"install", "run_tests"} /\ calls[i].name \in names}

NoCallsForSkipped == InstallOrTestCallsFor(Range(skipped)) = {}

\* C11: the confirm step changes only the current package; on a decline
\* approved is false, the name is appended to skipped and the phase and next
\* step are next; on an accept approved is true, the phase and next step are
\* install and skipped is unchanged; failed and completed are unchanged either
\* way, and no install (trial, persisting or restoring) or test run is ever
\* made for a package whose name is in skipped.
C11_ConfirmStep ==
    [][ /\ (node = "confirm") =>
              ( /\ OthersUnchanged
                /\ packages'[current_index + 1] =
                      [CurrentPkg EXCEPT !.approved = packages'[current_index + 1].approved]
                /\ current_index' = current_index
                /\ failed' = failed
                /\ completed' = completed
                /\ calls' = calls
                /\ \/ /\ packages'[current_index + 1].approved = FALSE
                      /\ skipped' = Append(skipped, CurrentPkg.name)
                      /\ phase' = "next"
                      /\ node' = "next"
                   \/ /\ packages'[current_index + 1].approved = TRUE
                      /\ skipped' = skipped
                      /\ phase' = "install"
                      /\ node' = "install" )
        /\ NoCallsForSkipped' ]_vars

\* one package was declined and a later one accepted and installed
C11_Witness ==
    /\ skipped /= <<>>
    /\ \E i \in 1 .. Len(packages) : packages[i].approved /\ packages[i].installed

\* the indices of the packages whose trial install failed
InstallFailed == {i \in 1 .. Len(packages) : packages[i].error = "Installation failed"}

\* no test run was made for a package whose trial install failed
NoTestAfterFailedInstall ==
    \A c \in 1 .. Len(calls) :
        calls[c].op = "run_tests" => (calls[c].index + 1) \notin InstallFailed

\* C12: the install step makes exactly one call, a non-persisted install of
\* the current package at its target version; if it succeeds installed becomes
\* true and the phase and next step are test; if it fails installed stays
\* false, error is set, the name is appended to failed and the phase and next
\* step are next; the test suite is never run for a package whose install
\* failed.
C12_InstallStep ==
    [][ /\ (node = "install") =>
              LET call == calls'[Len(calls')]
                  pkg  == packages'[current_index + 1]
              IN  /\ Len(calls') = Len(calls) + 1
                  /\ SubSeq(calls', 1, Len(calls)) = calls
                  /\ call.op = "install"
                  /\ call.update_manifest = FALSE
                  /\ call.name = CurrentPkg.name
                  /\ call.version = CurrentPkg.target_version
                  /\ OthersUnchanged
                  /\ \/ /\ call.result = "ok"
                        /\ pkg = [CurrentPkg EXCEPT !.installed = TRUE]
                        /\ failed' = failed
                        /\ phase' = "test"
                        /\ node' = "test"
                     \/ /\ call.result = "failed"
                        /\ pkg.installed = FALSE
                        /\ pkg.error /= None
                        /\ pkg = [CurrentPkg EXCEPT !.error = pkg.error]
                        /\ failed' = Append(failed, CurrentPkg.name)
                        /\ phase' = "next"
                        /\ node' = "next"
        /\ NoTestAfterFailedInstall' ]_vars

\* one package failed to install and another was installed and tested
C12_Witness ==
    /\ InstallFailed /= {}
    /\ \E c \in 1 .. Len(calls) : calls[c].op = "run_tests"

\* C13: the test step runs the suite once and records its outcome in
\* tests_passed of the current package, changing nothing else of it; the phase
\* and next step are commit exactly when the run passed and rollback exactly
\* when it failed; completed, failed and skipped are unchanged.
C13_TestStep ==
    [][ (node = "test") =>
              LET call == calls'[Len(calls')]
                  pkg  == packages'[current_index + 1]
              IN  /\ calls' = Append(calls, call)
                  /\ call.op = "run_tests"
                  /\ call.result \in {"ok", "failed"}
                  /\ OthersUnchanged
                  /\ pkg = [CurrentPkg EXCEPT
                               !.tests_passed = IF call.result = "ok" THEN "True" ELSE "False"]
                  /\ (node' = "commit") <=> (call.result = "ok")
                  /\ (node' = "rollback") <=> (call.result = "failed")
                  /\ phase' = node'
                  /\ completed' = completed
                  /\ failed' = failed
                  /\ skipped' = skipped ]_vars

\* both outcomes happened: one package is at commit with passing tests after
\* another went to rollback with failing tests
C13_Witness ==
    /\ node = "commit"
    /\ InRange
    /\ CurrentPkg.tests_passed = "True"
    /\ \E i \in 1 .. Len(packages) : packages[i].tests_passed = "False"

\* C14: the analyze step always leaves both the phase and the next step at
\* confirm, whatever the outcome of the changelog lookup and whatever risk
\* level or blocking issues the assessment carries: never next, install or done.
C14_AnalyzeGoesToConfirm ==
    [][ (node = "analyze") => (phase' = "confirm" /\ node' = "confirm") ]_vars

\* a package assessed as high risk is waiting for the user's confirmation
C14_Witness ==
    /\ node = "confirm"
    /\ InRange
    /\ CurrentPkg.multi_agent_assessment = "high"

\* the analyze step found no changelog text for the current package: the
\* lookup returned None or an empty string, or raised
NoChangelogFound == node = "analyze" /\ packages'[current_index + 1].changelog /= "text"

\* what the analyze step does besides storing the changelog when none was found
SkipsAnalysis ==
    /\ packages'[current_index + 1].assessment = None
    /\ packages'[current_index + 1].multi_agent_assessment = None
    /\ calls' = calls
    /\ phase' = "confirm"
    /\ node' = "confirm"

\* C15: when the changelog lookup yields nothing (it returns None or an empty
\* string, or raises) the analyze step stores a null changelog and null
\* assessments, does not run the orchestrator, and goes to confirm.
C15_NullChangelogStored ==
    [][ NoChangelogFound =>
            (packages'[current_index + 1].changelog = None /\ SkipsAnalysis) ]_vars

\* the dashboard row of a name
RowOf(name) == dashboard_data[FindEntry(dashboard_data, name)]

\* C16: when the user selects a non-empty list of names, the select step
\* creates exactly one package state per selected name, in selection order,
\* whose current_version is the installed version and whose target_version is
\* the latest version of that name's dashboard row, with changelog,
\* assessments, tests_passed and error null and approved, installed and
\* committed false; current_index is 0, the phase and next step are analyze,
\* and packages is as long as selected_packages.
C16_SelectInitialisesPackages ==
    [][ (node = "select" /\ selected_packages' /= <<>>) =>
            ( /\ Len(packages') = Len(selected_packages')
              /\ \A i \in 1 .. Len(selected_packages') :
                    packages'[i] =
                       [name                   |-> selected_packages'[i],
                        current_version        |-> RowOf(selected_packages'[i]).installed,
                        target_version         |-> RowOf(selected_packages'[i]).latest,
                        changelog              |-> None,
                        assessment             |-> None,
                        multi_agent_assessment |-> None,
                        approved               |-> FALSE,
                        installed              |-> FALSE,
                        tests_passed           |-> None,
                        committed              |-> FALSE,
                        error                  |-> None]
              /\ current_index' = 0
              /\ phase' = "analyze"
              /\ node' = "analyze" ) ]_vars

\* two packages were selected in an order other than the dashboard's and the
\* first one is about to be analyzed
C16_Witness ==
    /\ node = "analyze"
    /\ current_index = 0
    /\ Len(selected_packages) >= 2
    /\ selected_packages[1] > selected_packages[2]
    /\ Len(packages) = Len(selected_packages)
    /\ packages[1].current_version /= packages[1].target_version

\* no per-package handler has run: there are no package states, no collaborator
\* was called and no package was filed
NothingProcessed ==
    /\ packages = <<>>
    /\ calls = <<>>
    /\ completed = <<>> /\ failed = <<>> /\ skipped = <<>>

\* C17: when the UI runs and the user selects nothing, the select step returns
\* phase done with packages empty and the next step is done; done is followed
\* by the end of the workflow only, so none of analyze, confirm, install,
\* test, commit, rollback or next runs.
C17_EmptySelectionGoesToDone ==
    [][ /\ (node = "select" /\ selected_packages' = <<>> /\ errors' = errors) =>
              (phase' = "done" /\ node' = "done" /\ NothingProcessed')
        /\ (node = "done" /\ selected_packages = <<>>) => (node' = "END" /\ NothingProcessed')
        /\ node /= "END" ]_vars

\* the workflow ended after a scan that found dependencies and a selection of
\* none of them
C17_Witness ==
    /\ node = "END"
    /\ dashboard_data /= <<>>
    /\ selected_packages = <<>>
    /\ errors = <<>>
    /\ NothingProcessed

\* C18: when the selection UI cannot be loaded, the select step appends one
\* error to the workflow's errors, creates no package states, and the next
\* step is done; from then on only done and the end of the workflow follow,
\* and no per-package handler ever runs.
C18_NoUiGoesToDone ==
    [][ /\ (node = "select" /\ errors' /= errors) =>
              ( /\ Len(errors') = Len(errors) + 1
                /\ SubSeq(errors', 1, Len(errors)) = errors
                /\ packages' = <<>>
                /\ phase' = "done"
                /\ node' = "done" )
        /\ (errors' /= <<>>) => (node' \in {"done", "END"} /\ NothingProcessed') ]_vars

\* the workflow ended with the UI error recorded and nothing processed
C18_Witness ==
    /\ node = "END"
    /\ dashboard_data /= <<>>
    /\ errors = <<"Textual library not installed">>
    /\ NothingProcessed

YieldsText(s, w) == StrategyOutcome(s, w) \notin {None, "", "raise"}

\* the position of the first strategy, in order, that yields text (0: none)
FirstYielding(w) ==
    IF \E i \in DOMAIN Strategies : YieldsText(Strategies[i], w)
    THEN CHOOSE i \in DOMAIN Strategies :
            /\ YieldsText(Strategies[i], w)
            /\ \A j \in 1 .. i - 1 : ~YieldsText(Strategies[j], w)
    ELSE 0

\* C20: get_changelog returns the output of the first strategy, in the order
\* release-range aggregation, single-release lookup, changelog file lookup,
\* README link following, that yields non-empty text, having tried exactly
\* the strategies up to that one; a strategy that errors counts as yielding
\* nothing, so the call never ends in an exception; and the result is None
\* when all four yield nothing.
C20_FirstYieldingStrategyWins ==
    (gh_pc \in {"returned", "raised"}) =>
        LET k == FirstYielding(gh_world)
        IN  /\ gh_pc = "returned"
            /\ gh_result = IF k = 0 THEN None ELSE StrategyOutcome(Strategies[k], gh_world)
            /\ gh_tried = SubSeq(Strategies, 1, IF k = 0 THEN Len(Strategies) ELSE k)

\* C21: no call of the repository client's get_changelog raises to its
\* caller: whatever the version strings and the repository hold (a version
\* string that does not parse, file content that does not decode), every
\* strategy's failure becomes "try the next strategy" or a None result.
C21_GetChangelogNeverRaises == gh_pc /= "raised"

(***************************************************************************)
(* Properties of the release-range aggregation.                            *)
(***************************************************************************)
\* the version a plain tag names: the v of a tag "V" or "vV", 0 for any other tag
NamedVersion(tag_name) ==
    IF \E v \in Versions : tag_name \in {MakeTag("V", <<>>, v), MakeTag("vV", <<>>, v)}
    THEN CHOOSE v \in Versions : tag_name \in {MakeTag("V", <<>>, v), MakeTag("vV", <<>>, v)}
    ELSE 0

\* the release's tag names a version v with current < v <= target, and the
\* release has a body
Qualifies(release) ==
    /\ NamedVersion(release.tag_name) /= 0
    /\ rr_in.current < NamedVersion(release.tag_name)
    /\ NamedVersion(release.tag_name) <= rr_in.latest
    /\ release.body /= ""

TagNames(releases) == [i \in DOMAIN releases |-> releases[i].tag_name]

C23_TagParsesToItsVersion ==
    \A i \in 1 .. rr_i : \A st \in TagStyles, v \in Versions :
        ( /\ rr_in.package_name /= <<>>
          /\ rr_in.releases[i].tag_name = MakeTag(st, rr_in.package_name, v) )
        => rr_parsed[i] = v

(***************************************************************************)
(* Properties of the registry lookup.                                      *)
(***************************************************************************)
\* the entry has, under a key that reads `field` whatever its casing, a URL
\* on the supported host
QualifiesUnder(field) ==
    \E k \in DOMAIN py_in.project_urls :
        k.name = field /\ py_in.project_urls[k][1] = "github.com"

\* the URL get_source_url is to return when the keys are taken in the given
\* order and the home_page field after them: the bare host and path of the
\* first that qualifies, None when none does or the registry has no entry
ExpectedSourceUrl(order) ==
    IF py_in.status /= "ok" THEN None
    ELSE IF \E i \in DOMAIN order : QualifiesUnder(order[i])
    THEN LET i == CHOOSE i \in DOMAIN order :
                     /\ QualifiesUnder(order[i])
                     /\ \A j \in 1 .. i - 1 : ~QualifiesUnder(order[j])
         IN  <<"github.com", order[i]>>
    ELSE IF py_in.home_page /= <<>> /\ py_in.home_page[1] = "github.com"
    THEN <<"github.com", "home_page">>
    ELSE None

Fails(agent) ==
    \/ agent.wrapper = "raising"
    \/ agent.llm = None
    \/ agent.max_chars = "invalid"
    \/ agent.backend.kind \in {"unreachable", "malformed"}

FailingWrappers == {name \in AgentNames : Fails(or_world[name])}

\* the field of the aggregated assessment that holds the result of the agent
AssessmentOf(assessment, name) ==
    CASE name = "risk_assessor" -> assessment.risk
      [] name = "security_auditor" -> assessment.security
      [] name = "compatibility" -> assessment.compatibility

\* C26: whatever subset of the three wrappers raises or returns None, in the
\* sequential, thread-pool and async modes, the aggregated assessment holds
\* the result of every other wrapper, agents_failed names exactly the failing
\* wrappers and agents_succeeded exactly the others, no name twice.
C26_FaultIsolation ==
    or_pc = "aggregated" =>
        /\ \A name \in AgentNames \ FailingWrappers :
               AssessmentOf(or_assessment, name) = or_world[name].backend
        /\ \A name \in FailingWrappers : AssessmentOf(or_assessment, name) = NoResult
        /\ Range(or_assessment.agents_failed) = FailingWrappers
        /\ Range(or_assessment.agents_succeeded) = AgentNames \ FailingWrappers
        /\ Len(or_assessment.agents_failed) + Len(or_assessment.agents_succeeded)
               = Len(agents)

\* one wrapper raised, another returned None without a backend, and the third
\* one's result is in the aggregate
C26_Witness ==
    /\ or_pc = "aggregated"
    /\ or_mode = "parallel"
    /\ or_world["risk_assessor"].wrapper = "raising"
    /\ or_world["security_auditor"].llm = None
    /\ Present(or_assessment.compatibility)
    /\ or_assessment.agents_succeeded = <<"compatibility">>

\* the results of the wrappers with one blocking finding more: the risk level
\* HIGH, one more critical breaking change, compatible or python_compatible
\* unset, or one more compatibility issue of severity blocking
WithBlockingFinding(returned) ==
    LET risk == returned["risk_assessor"]
        compatibility == returned["compatibility"]
    IN  (IF Present(risk)
         THEN {[returned EXCEPT !["risk_assessor"].risk_level = "high"],
               [returned EXCEPT !["risk_assessor"].breaking_changes = Append(@, "critical")]}
         ELSE {})
        \cup
        (IF Present(compatibility)
         THEN {[returned EXCEPT !["compatibility"].compatible = FALSE],
               [returned EXCEPT !["compatibility"].python_compatible = FALSE],
               [returned EXCEPT !["compatibility"].issues = Append(@, "blocking")]}
         ELSE {})

\* C27: when the aggregate of three results has no blocking issue, the
\* aggregate of the same results with one blocking finding added has
\* overall_risk HIGH and upgrade_recommended false, whatever else they hold.
C27_BlockingFindingFlipsAggregate ==
    (or_pc = "aggregated" /\ or_assessment.blocking_issues = <<>>) =>
        \A with_finding \in WithBlockingFinding(or_returned) :
            LET flipped == aggregate(ResultsDict(with_finding))
            IN  /\ flipped.blocking_issues /= <<>>
                /\ flipped.overall_risk = "high"
                /\ ~ flipped.upgrade_recommended

\* a clean aggregate that recommends the upgrade, with a security assessment
\* that is improved and recommends it, to which all five findings can be added
C27_Witness ==
    /\ or_pc = "aggregated"
    /\ or_assessment.blocking_issues = <<>>
    /\ or_assessment.upgrade_recommended
    /\ or_assessment.overall_risk = "low"
    /\ Present(or_assessment.security)
    /\ or_assessment.security.security_score = "improved"
    /\ or_assessment.security.upgrade_recommended
    /\ Cardinality(WithBlockingFinding(or_returned)) = 5

\* the risk signals of the analyses held by an assessment
RiskSignals(assessment) ==
    {level \in Levels :
        \/ Present(assessment.risk) /\ assessment.risk.risk_level = level
        \/ /\ level = "high"
           /\ Present(assessment.compatibility)
           /\ ~ assessment.compatibility.compatible
        \/ /\ level = "medium"
           /\ Present(assessment.security)
           /\ assessment.security.security_score = "concerning"
        \/ /\ level = "positive"
           /\ Present(assessment.security)
           /\ assessment.security.security_score = "improved"}

\* HIGH > MEDIUM > LOW > POSITIVE
Severity(level) ==
    CASE level = "high" -> 4 [] level = "medium" -> 3 [] level = "low" -> 2
      [] level = "positive" -> 1

\* C28: overall_risk is HIGH when a blocking issue exists; otherwise the most
\* severe of the risk signals (the risk level, HIGH for incompatible, MEDIUM
\* for security concerning, POSITIVE for security improved); MEDIUM when no
\* analysis gave a signal.
C28_OverallRisk ==
    or_pc \in {"aggregated", "risk_calculated"} =>
        LET signals == RiskSignals(or_assessment)
            overall_risk == or_assessment.overall_risk
        IN  IF or_assessment.blocking_issues /= <<>> THEN overall_risk = "high"
            ELSE IF signals = {} THEN overall_risk = "medium"
            ELSE /\ overall_risk \in signals
                 /\ \A level \in signals : Severity(level) <= Severity(overall_risk)

\* no blocking issue, a LOW risk level and a concerning security score: MEDIUM
C28_Witness ==
    /\ or_pc = "risk_calculated"
    /\ or_assessment.blocking_issues = <<>>
    /\ Present(or_assessment.risk)
    /\ or_assessment.risk.risk_level = "low"
    /\ Present(or_assessment.security)
    /\ or_assessment.security.security_score = "concerning"
    /\ or_assessment.overall_risk = "medium"

\* C29: upgrade_recommended is false when a blocking issue exists or
\* overall_risk is HIGH; otherwise it is true exactly when the security
\* assessment recommends the upgrade, or overall_risk is LOW or POSITIVE with
\* compatibility absent or compatible, or overall_risk is MEDIUM.
C29_UpgradeRecommended ==
    or_pc \in {"aggregated", "recommended"} =>
        LET overall_risk == or_assessment.overall_risk
            compatibility == or_assessment.compatibility
            security_recommends ==
                Present(or_assessment.security) /\ or_assessment.security.upgrade_recommended
            compatible_or_absent ==
                Present(compatibility) => compatibility.compatible
        IN  or_assessment.upgrade_recommended
            <=> /\ or_assessment.blocking_issues = <<>>
                /\ overall_risk /= "high"
                /\ \/ security_recommends
                   \/ overall_risk \in {"low", "positive"} /\ compatible_or_absent
                   \/ overall_risk = "medium"

\* the last case: LOW risk, an incompatible compatibility assessment, no
\* blocking issue recorded and no recommendation from security
C29_Witness ==
    /\ or_pc = "recommended"
    /\ or_assessment.blocking_issues = <<>>
    /\ or_assessment.overall_risk = "low"
    /\ Present(or_assessment.compatibility)
    /\ ~ or_assessment.compatibility.compatible
    /\ ~ or_assessment.upgrade_recommended

\* the backend of the wrapper fails: it is unreachable, its structured output
\* does not parse, or the character budget setting is not a number
BackendFails(agent) ==
    /\ agent.llm /= None
    /\ agent.max_chars = "invalid" \/ agent.backend.kind \in {"unreachable", "malformed"}

\* C30: analyze and analyze_async of a wrapper return None without reaching
\* the backend when no backend is configured, and return None, never raising,
\* when the backend call fails in any way.
C30_WrapperReturnsNone ==
    \A name \in AgentNames :
        (or_world[name].wrapper = "BaseAgent" /\ or_call[name] /= NotCalled) =>
            /\ or_call[name].value /= Raised
            /\ or_world[name].llm = None =>
                   or_call[name].value = NoResult /\ ~ or_call[name].invoked
            /\ BackendFails(or_world[name]) => or_call[name].value = NoResult

\* analyze_async has been called on a wrapper without backend, on one whose
\* backend gave malformed output and on one with a bad budget setting
C30_Witness ==
    /\ or_mode = "async"
    /\ or_world["risk_assessor"] = NoBackend
    /\ or_call["risk_assessor"] = [value |-> NoResult, invoked |-> FALSE]
    /\ or_world["security_auditor"] = Working(Malformed)
    /\ or_call["security_auditor"] = [value |-> NoResult, invoked |-> TRUE]
    /\ or_world["compatibility"].max_chars = "invalid"
    /\ or_call["compatibility"].value = NoResult

\* the version each source gives, <<>> when the source is absent or unusable:
\* the word of the .python-version file, the first version number of
\* requires-python, the version the project's interpreter prints
VersionFromFile ==
    IF /\ pv_in.version_file.state = "readable"
       /\ Len(Strip(pv_in.version_file.text)) = 1
       /\ Strip(pv_in.version_file.text)[1] \in VersionNumbers
    THEN Strip(pv_in.version_file.text) ELSE <<>>

VersionFromPyproject ==
    IF pv_in.pyproject.state = "readable" /\ pv_in.pyproject.has_requires
    THEN version_match(pv_in.pyproject.spec) ELSE <<>>

VersionFromInterpreter ==
    IF pv_in.interpreter.outcome = "ok"
    THEN interpreter_match(pv_in.interpreter.stdout) ELSE <<>>

\* C31: the version returned is the one of the first source, in the order
\* .python-version, requires-python, the project's interpreter, the tool's
\* runtime, that gives a version; a source is passed over only when it is
\* absent or unusable.
C31_FirstAvailableSource ==
    pv_pc = "returned" =>
        pv_result =
            IF VersionFromFile /= <<>> THEN VersionFromFile
            ELSE IF VersionFromPyproject /= <<>> THEN VersionFromPyproject
            ELSE IF VersionFromInterpreter /= <<>> THEN VersionFromInterpreter
            ELSE RuntimeVersion

\* the version of the release whose note stands at place i of the text
NoteVersion(i) == parse(VersionStr(rr_notes[i], rr_in.package_name))

\* C32: the returned text lists the included releases newest first, each
\* under the header of its tag, whatever the order of the listing.
C32_NewestFirst ==
    rr_pc = "returned" =>
        \A i, j \in 1..Len(rr_notes) : i < j => NoteVersion(i) >= NoteVersion(j)

\* the number of words of severities that are, or are not, severity
Having(severities, severity, same) ==
    Cardinality({i \in 1..Len(severities) : (severities[i] = severity) = same})

\* 1 when the condition holds, else 0
One(condition) == IF condition THEN 1 ELSE 0

\* C33: blocking_issues has one entry for risk level HIGH, for each critical
\* breaking change, for compatible = false, for python_compatible = false and
\* for each blocking compatibility issue, and nothing else; risk MEDIUM, the
\* other breaking changes, security concerns and the other compatibility
\* issues are warnings; security improved and the vulnerabilities fixed that
\* affect the current version are improvements.
C33_BlockingEntries ==
    or_pc = "aggregated" =>
        LET risk == or_assessment.risk
            security == or_assessment.security
            compatibility == or_assessment.compatibility
            blocking_issues == or_assessment.blocking_issues
            warnings == or_assessment.warnings
            improvements == or_assessment.improvements
            breaking_changes == IF Present(risk) THEN risk.breaking_changes ELSE <<>>
            issues == IF Present(compatibility) THEN compatibility.issues ELSE <<>>
            concerns == IF Present(security) THEN security.security_concerns ELSE <<>>
            fixed == IF Present(security) THEN security.vulnerabilities_fixed ELSE <<>>
        IN  /\ Count(blocking_issues, "High risk")
                   = One(Present(risk) /\ risk.risk_level = "high")
            /\ Count(blocking_issues, "Breaking") = Having(breaking_changes, "critical", TRUE)
            /\ Count(blocking_issues, "Incompatible")
                   = One(Present(compatibility) /\ ~ compatibility.compatible)
            /\ Count(blocking_issues, "Python not supported")
                   = One(Present(compatibility) /\ ~ compatibility.python_compatible)
            /\ Count(blocking_issues, "Compatibility") = Having(issues, "blocking", TRUE)
            /\ Range(blocking_issues) \subseteq
                   {"High risk", "Breaking", "Incompatible", "Python not supported",
                    "Compatibility"}
            /\ Count(warnings, "Medium risk")
                   = One(Present(risk) /\ risk.risk_level = "medium")
            /\ Count(warnings, "Breaking (other)")
                   = Having(breaking_changes, "critical", FALSE)
            /\ Count(warnings, "Security") = Len(concerns)
            /\ Count(warnings, "Compatibility (other)") = Having(issues, "blocking", FALSE)
            /\ Count(improvements, "Security improved")
                   = One(Present(security) /\ security.security_score = "improved")
            /\ Count(improvements, "Fixes") = Having(fixed, "fixes_current", TRUE)

\* two critical breaking changes and two blocking issues among others, with a
\* security assessment that is improved and fixes a vulnerability
C33_Witness ==
    /\ or_pc = "aggregated"
    /\ or_assessment.blocking_issues
           = <<"Breaking", "Breaking", "Python not supported", "Compatibility",
               "Compatibility">>
    /\ or_assessment.warnings = <<"Medium risk", "Breaking (other)", "Compatibility (other)">>
    /\ or_assessment.improvements = <<"Security improved", "Fixes">>

\* what the orchestrator makes of the call of the agent: its value, None when
\* it raised
Outcome(name) ==
    IF or_call[name].value = Raised THEN NoResult ELSE or_call[name].value

\* C34: in the thread-pool and async modes the aggregation starts only when
\* the three analysis calls have completed, in whatever order they complete:
\* the aggregated assessment holds the outcome of every call, never a part.
C34_JoinBeforeAggregate ==
    (or_pc = "aggregated" /\ or_mode \in {"parallel", "async"}) =>
        /\ Range(or_order) = AgentNames
        /\ \A name \in AgentNames :
               /\ or_call[name] /= NotCalled
               /\ AssessmentOf(or_assessment, name) = Outcome(name)
        /\ Len(or_assessment.agents_succeeded) + Len(or_assessment.agents_failed)
               = Len(agents)

\* an aggregate of three results whose calls completed in the reverse of the
\* order they were submitted in
C34_Witness ==
    /\ or_pc = "aggregated"
    /\ or_mode = "parallel"
    /\ or_order = Reverse(agents)
    /\ \A name \in AgentNames : Present(AssessmentOf(or_assessment, name))

\* one analysis call of a concurrent run never returns
OneCallHangs ==
    /\ or_pc = "running"
    /\ or_mode \in {"parallel", "async"}
    /\ Cardinality({name \in AgentNames : NeverReturns(or_world[name])}) = 1

\* C35: in the concurrent modes, when one analysis call never returns, it is
\* turned into a None result and the orchestrator completes its join and
\* returns an aggregate built from the two other results.
C35_TimeoutBecomesNone ==
    OneCallHangs ~>
        /\ or_pc = "aggregated"
        /\ \A name \in AgentNames :
               NeverReturns(or_world[name]) => AssessmentOf(or_assessment, name) = NoResult

\* the outcome of each wrapper as its make-up gives it, in the order of
\* self.agents: None for a failure, else the assessment of its backend
OutcomesOf(world) ==
    [i \in 1..Len(agents) |->
        [name |-> agents[i],
         result |-> IF Fails(world[agents[i]]) THEN NoResult
                    ELSE world[agents[i]].backend]]

\* C36: for the same three outcomes, the sequential, thread-pool and async
\* modes return the same aggregated assessment, agents_succeeded and
\* agents_failed in the order of the agents, whatever order the calls of a
\* concurrent run finish in.
C36_SameAggregateInEveryMode ==
    or_pc = "aggregated" =>
        /\ or_assessment = aggregate(OutcomesOf(or_world))
        /\ or_assessment.agents_succeeded
               = SelectSeq(agents, LAMBDA name : ~ Fails(or_world[name]))
        /\ or_assessment.agents_failed
               = SelectSeq(agents, LAMBDA name : Fails(or_world[name]))

\* an async run whose calls finished in reverse order, the middle one failing
C36_Witness ==
    /\ or_pc = "aggregated"
    /\ or_mode = "async"
    /\ or_order = Reverse(agents)
    /\ or_assessment.agents_succeeded = <<"risk_assessor", "compatibility">>
    /\ or_assessment.agents_failed = <<"security_auditor">>

\* the terminal lists a step has changed
ChangedTerminalLists ==
    {list \in {"completed", "failed", "skipped"} :
        \/ list = "completed" /\ completed' /= completed
        \/ list = "failed" /\ failed' /= failed
        \/ list = "skipped" /\ skipped' /= skipped}

\* C37: a per-package handler (analyze, confirm, install, test, commit,
\* rollback) changes at most packages[current_index] and, by appending the
\* name of that package, one terminal list; the other entries of packages,
\* current_index, selected_packages, dependencies and the other terminal
\* lists stay as they were.
C37_PerPackageIsolation ==
    [][ (node \in PerPackageNodes) =>
            ( /\ OthersUnchanged
              /\ current_index' = current_index
              /\ selected_packages' = selected_packages
              /\ dependencies' = dependencies
              /\ Cardinality(ChangedTerminalLists) <= 1
              /\ completed' \in {completed, Append(completed, CurrentPkg.name)}
              /\ failed' \in {failed, Append(failed, CurrentPkg.name)}
              /\ skipped' \in {skipped, Append(skipped, CurrentPkg.name)} ) ]_vars

\* the second package has gone through confirm, install and test while the
\* first one, declined before, still holds the state its own handlers left
C37_Witness ==
    /\ current_index = 1
    /\ node = "rollback"
    /\ packages[2].approved /\ packages[2].installed
    /\ ~ packages[1].approved
    /\ skipped = <<packages[1].name>>
    /\ failed = <<>>

\* C38: in every reachable state no package name stands in more than one of
\* completed, failed and skipped, nor twice in one of them: a package is
\* appended to a terminal list at most once in a run.
C38_AtMostOneTerminalEntry ==
    \A i \in DOMAIN packages : Count(Terminal, packages[i].name) <= 1

\* two packages have reached a terminal list, each its own
C38_Witness ==
    /\ Len(completed) = 1
    /\ Len(failed) = 1
    /\ completed[1] /= failed[1]
    /\ node = "done"

\* the package states whose name stands in the list
StatesIn(list) == {packages[i] : i \in {j \in DOMAIN packages : packages[j].name \in Range(list)}}

\* C39: in every reachable state a package in completed has approved and
\* installed true and tests_passed true; a package in skipped has approved
\* and installed false and tests_passed null; a package in failed has
\* approved true; committed is true only for packages in completed.
C39_FlagsMatchTerminalList ==
    /\ \A pkg \in StatesIn(completed) :
           pkg.approved /\ pkg.installed /\ pkg.tests_passed = "True"
    /\ \A pkg \in StatesIn(skipped) :
           ~ pkg.approved /\ ~ pkg.installed /\ pkg.tests_passed = None
    /\ \A pkg \in StatesIn(failed) : pkg.approved
    /\ \A i \in DOMAIN packages :
           packages[i].committed => packages[i].name \in Range(completed)

\* a run that left one package in completed, committed, and one in failed
\* after its tests failed
C39_Witness ==
    /\ Len(completed) = 1
    /\ Len(failed) = 1
    /\ \E pkg \in StatesIn(completed) : pkg.committed
    /\ \E pkg \in StatesIn(failed) : pkg.installed /\ pkg.tests_passed = "False"

\* C40: in every aggregate the orchestrator returns, upgrade_recommended is
\* true exactly when blocking_issues is empty and overall_risk is HIGH exactly
\* when it is not; when the three analyses all failed the aggregate has
\* overall_risk MEDIUM, no blocking issue and upgrade_recommended true.
C40_RecommendedIffNoBlocking ==
    or_pc = "aggregated" =>
        /\ or_assessment.upgrade_recommended <=> or_assessment.blocking_issues = <<>>
        /\ or_assessment.overall_risk = "high" <=> or_assessment.blocking_issues /= <<>>
        /\ (\A name \in AgentNames : ~ Present(AssessmentOf(or_assessment, name))) =>
               /\ or_assessment.overall_risk = "medium"
               /\ or_assessment.blocking_issues = <<>>
               /\ or_assessment.upgrade_recommended

\* the aggregate of three failed analyses
C40_Witness ==
    /\ or_pc = "aggregated"
    /\ or_assessment.agents_failed = agents
    /\ or_assessment.overall_risk = "medium"
    /\ or_assessment.upgrade_recommended
====
